---------------------------- MODULE Spec2Model ----------------------------
(***************************************************************************)
(* Review-history persistence of codebunny: the File backend               *)
(* (.contributor/review-data.json), the Turso (libSQL) backend, the        *)
(* storage factory with its migration routine, the approval transition    *)
(* counter, the life cycle of a backend and the historical validator.     *)
(*                                                                         *)
(* Timestamps are ISO-8601 strings produced by Date.toISOString(); for     *)
(* these the lexicographic order (SQL ORDER BY on a TEXT column) and the   *)
(* chronological order (new Date(t).getTime()) coincide, so a timestamp is *)
(* modelled by a natural number and both orders by <.                      *)
(***************************************************************************)
EXTENDS Integers, Sequences, FiniteSets, TLC

VARIABLES
    fileExists,     \* .contributor/review-data.json exists
    fileDoc,        \* its parsed content: repository -> FileReviewData
    backupExists,   \* .contributor/review-data.json.backup exists
    backupDoc,      \* its content
    tursoClient,    \* TursoStorage.client is non-null (initialize succeeded)
    tursoSynced,    \* TursoStorage.config.syncUrl is set (embedded replica)
    tursoRows,      \* table ReviewSnapshot of .contributor/reviews.db, in id order
    nextId,         \* the AUTOINCREMENT counter of that table
    storage,        \* the backend the last createStorage call returned
    last,           \* the last operation, its arguments and its outcome
    ops,            \* number of storage operations performed so far
    runs,           \* number of backends created so far (process runs)
    late,           \* number of saves that carried an older timestamp
    tursoTransitions, \* table ApprovalTransition of .contributor/reviews.db
    prisma,         \* the Postgres tables PrismaStorage writes
    lifecycle,      \* outcome of the last initialize() or close() of the backend
    snapshots,      \* argument of countApprovalChanges
    changes,        \* its result
    pc,             \* position of the countApprovalChanges caller
    git,            \* work tree, index and history of the checked-out repository
    calls,          \* the FileStorage calls in flight, one per caller
    fileTorn,       \* review-data.json holds only a prefix of a document
    metrics,        \* content of .continue/review-metrics.json (legacy store)
    env             \* TURSO_DATABASE_URL and TURSO_AUTH_TOKEN of the process

vars == <<fileExists, fileDoc, backupExists, backupDoc, tursoClient, tursoSynced,
          tursoRows, nextId, storage, last, ops, runs, late, tursoTransitions, prisma,
          lifecycle, snapshots, changes, pc, git, calls, fileTorn, metrics, env>>

fileVars == <<fileExists, fileDoc, backupExists, backupDoc>>
tursoVars == <<tursoClient, tursoSynced, tursoRows, nextId>>
countVars == <<snapshots, changes, pc>>
procVars == <<git, calls, fileTorn, metrics, env>>
relVars == <<tursoTransitions, prisma>>

---------------------------------------------------------------------------
(* Bounds of the model *)

MaxTs == 2          \* timestamps 1..MaxTs in the general specification
MaxOps == 2         \* storage operations per behaviour
MaxRuns == 1        \* backends a behaviour constructs and initializes
MaxCalls == 1       \* createStorage calls per behaviour
MaxSnapshots == 4   \* longest argument of countApprovalChanges
NumSaves == 101     \* saves in the retention specification
MaxLate == 1        \* saves that arrive with an older timestamp there
MaxFail == 1        \* records that fail in one migration
MaxMigrations == 2  \* createStorage runs in the migration specification
MaxLimit == 2       \* greatest limit passed to getAllReviews
MaxTx == 1          \* runInTransaction calls per behaviour
MaxRecords == 3     \* recordReviewMetrics calls per behaviour
MaxStored == 3      \* saves in the cleanup specification
MaxKeep == 3        \* greatest keepLast passed to cleanup
MaxCleanups == 2    \* cleanup calls per behaviour
MaxInits == 2       \* initialize calls on one backend object
NumTransitions == 501 \* saves in the transition cap specification
MaxHistory == 2     \* reviews saved in the validator specification
MaxRanked == 6      \* reviews saved in the ranking specification
JitterDen == 2      \* the random term of a score is a multiple of 1 / JitterDen

(* Program constants *)

maxReviews == 100
maxTransitions == 500       \* transitions the File backend keeps per repository
HistoryLimit == 100         \* reviews the validator asks the storage for
AuthorWeight == 30          \* score of a matching author
TitleWeight == 40           \* score of a full title match
JitterRange == 10           \* the random term lies in [0, JitterRange)
SimilarityThreshold == 20   \* similarities above it are kept
MaxSimilar == 5             \* similar PRs returned at most
MaxIssues == 10             \* common issues returned at most

Repos == {"A", "B"}
PRs == {1, 2}
ReviewStates == {"MERGE", "DONT_MERGE", "MERGE_AFTER_CHANGES", "UNKNOWN"}
Undefined == "undefined"
Null == "null"

---------------------------------------------------------------------------
(* ReviewSnapshot (storage-interface) *)

Snapshot(ts, pr, st, m, c) ==
    [timestamp |-> ts, prNumber |-> pr, prTitle |-> <<"title", pr>>,  \* commentId: a numeral
     prAuthor |-> "alice", reviewState |-> st, reviewText |-> <<>>,
     codebunnyMentioned |-> m, commentId |-> c]

\* the snapshots the callers save: every timestamp and PR, as an approved
\* review without a comment or as a rejected, mention-triggered one with one
SnapshotInputs ==
    { Snapshot(ts, pr, v[1], v[2], v[3]) :
        ts \in 1..MaxTs, pr \in PRs,
        v \in {<<"MERGE", FALSE, Undefined>>, <<"DONT_MERGE", TRUE, "7">>} }

EmptyData == [reviews |-> <<>>, transitions |-> <<>>]
EmptyDoc == [r \in Repos |-> EmptyData]

NoOp == [op |-> "none"]

\* the tables reviewSnapshot and approvalTransition, both empty
EmptyPrisma == [reviewSnapshot |-> <<>>, approvalTransition |-> <<>>]

---------------------------------------------------------------------------
(* Sequence helpers *)

\* Array.prototype.slice(-n): the last n elements; slice(-0) is slice(0),
\* the whole array.
SliceLast(seq, n) ==
    IF n = 0 \/ Len(seq) <= n THEN seq
    ELSE SubSeq(seq, Len(seq) - n + 1, Len(seq))

Range(seq) == { seq[i] : i \in 1..Len(seq) }

---------------------------------------------------------------------------
(* FileStorage *)

\* loadData: a failed read or parse yields the empty data of the repository
loadData(repository, readOk) ==
    IF fileExists /\ readOk THEN fileDoc[repository] ELSE EmptyData

\* variant: the document is written back as it was read
saveData_asRead(repository, data, readOk) ==
    IF fileExists /\ readOk THEN fileDoc ELSE EmptyDoc

\* saveData: the document that is written
saveData(repository, data, readOk) ==
    LET allData == IF fileExists /\ readOk THEN fileDoc ELSE EmptyDoc
    IN  [allData EXCEPT ![repository] = data]

\* variant: the trim starts one element too late
FileTrim_lateTrim(reviews) ==
    IF Len(reviews) > maxReviews + 1 THEN SliceLast(reviews, maxReviews) ELSE reviews

\* variant: the array is persisted as pushed
FileTrim_noTrim(reviews) == reviews

\* the reviews array saveReview persists: push, then trim to maxReviews
FileTrim(reviews) ==
    IF Len(reviews) > maxReviews THEN SliceLast(reviews, maxReviews) ELSE reviews

FileStorage_saveReview(repository, snapshot, loadOk, readOk, writeOk) ==
    LET data == loadData(repository, loadOk)
        kept == FileTrim(Append(data.reviews, snapshot))
        data2 == [data EXCEPT !.reviews = kept]
    IN  /\ IF writeOk
           THEN /\ fileExists' = TRUE
                /\ fileDoc' = saveData(repository, data2, readOk)
           ELSE UNCHANGED <<fileExists, fileDoc>>
        /\ UNCHANGED <<backupExists, backupDoc>>
        /\ last' = [op |-> "saveReview", backend |-> "file", repository |-> repository,
                    snapshot |-> snapshot, ok |-> writeOk]

FileStorage_getReviewHistory(repository, prNumber, readOk) ==
    LET data == loadData(repository, readOk)
    IN  SelectSeq(data.reviews, LAMBDA r : r.prNumber = prNumber)

---------------------------------------------------------------------------
(* Initial values shared by the specifications *)

InitCommon ==
    /\ backupExists = FALSE /\ backupDoc = EmptyDoc
    /\ tursoClient = FALSE /\ tursoSynced = FALSE
    /\ tursoRows = <<>> /\ nextId = 1
    /\ storage = "none"
    /\ last = NoOp
    /\ ops = 0 /\ runs = 0 /\ late = 0
    /\ tursoTransitions = <<>>
    /\ prisma = EmptyPrisma
    /\ lifecycle = "constructed"

InitCount0 == snapshots = <<>> /\ changes = 0 /\ pc = "idle"

\* a repository without .contributor, nothing staged, no commit made
NoGit == [contributorDir |-> FALSE, summaries |-> FALSE, data |-> FALSE,
          staged |-> FALSE, commits |-> 0, pushed |-> 0]

\* neither variable is set
NoEnv == [url |-> Undefined, token |-> FALSE]

InitProc0 ==
    /\ git = NoGit /\ calls = <<>> /\ fileTorn = FALSE /\ metrics = <<>>
    /\ env = NoEnv

---------------------------------------------------------------------------
(* TursoStorage *)

\* the row INSERT stores: flags become integers, a falsy commentId NULL
snapshotToRow(id, repository, snapshot) ==
    [id |-> id, timestamp |-> snapshot.timestamp, repository |-> repository,
     prNumber |-> snapshot.prNumber, prTitle |-> snapshot.prTitle,
     prAuthor |-> snapshot.prAuthor,
     reviewState |-> snapshot.reviewState, reviewText |-> snapshot.reviewText,
     codebunnyMentioned |-> IF snapshot.codebunnyMentioned THEN 1 ELSE 0,
     commentId |-> IF snapshot.commentId \in {Undefined, Null, "0"}
                   THEN Null ELSE snapshot.commentId]

rowToSnapshot(row) ==
    [timestamp |-> row.timestamp, prNumber |-> row.prNumber,
     prTitle |-> row.prTitle, prAuthor |-> row.prAuthor,
     reviewState |-> row.reviewState, reviewText |-> row.reviewText,
     codebunnyMentioned |-> (row.codebunnyMentioned = 1),
     commentId |-> row.commentId]

\* the table after the INSERT of saveReview
TursoInsert(rows, id, repository, snapshot) ==
    Append(rows, snapshotToRow(id, repository, snapshot))

\* variant: a failed INSERT is logged and not rethrown
TursoSaveOk_swallow(client, synced, insertOk, syncOk) ==
    client /\ (synced => syncOk)

\* saveReview: throws without a client, when the INSERT fails, and when the
\* sync that follows the INSERT of an embedded replica fails
TursoSaveOk(client, synced, insertOk, syncOk) ==
    client /\ insertOk /\ (synced => syncOk)

TursoStorage_saveReview(repository, snapshot, insertOk, syncOk) ==
    /\ IF tursoClient /\ insertOk
       THEN /\ tursoRows' = TursoInsert(tursoRows, nextId, repository, snapshot)
            /\ nextId' = nextId + 1
       ELSE UNCHANGED <<tursoRows, nextId>>
    /\ UNCHANGED <<tursoClient, tursoSynced>>
    /\ last' = [op |-> "saveReview", backend |-> "turso", repository |-> repository,
                snapshot |-> snapshot,
                ok |-> TursoSaveOk(tursoClient, tursoSynced, insertOk, syncOk)]

IsAscending(seq) ==
    \A i \in 1..(Len(seq) - 1) : seq[i].timestamp <= seq[i + 1].timestamp

\* SELECT ... WHERE repository = ? AND prNumber = ?
TursoSelect(rows, repository, prNumber) ==
    SelectSeq(rows, LAMBDA r : r.repository = repository /\ r.prNumber = prNumber)

\* ORDER BY timestamp ASC: every arrangement of the selected rows that
\* ascends by timestamp (SQL leaves the order of equal keys open)
OrderByTimestampAsc(rows) ==
    { [i \in 1..Len(rows) |-> rows[p[i]]] :
        p \in { q \in [1..Len(rows) -> 1..Len(rows)] :
                  /\ \A i, j \in 1..Len(rows) : i # j => q[i] # q[j]
                  /\ \A i \in 1..(Len(rows) - 1) :
                        rows[q[i]].timestamp <= rows[q[i + 1]].timestamp } }

MapRows(rows) == [i \in 1..Len(rows) |-> rowToSnapshot(rows[i])]

\* the results getReviewHistory can return; a failed query yields []
TursoStorage_getReviewHistory(repository, prNumber, queryOk) ==
    IF queryOk
    THEN { MapRows(o) : o \in OrderByTimestampAsc(TursoSelect(tursoRows, repository, prNumber)) }
    ELSE { <<>> }

---------------------------------------------------------------------------
(* turso-setup *)

Urls == {Undefined, "libsql://db.turso.io", "file:local.db"}

\* !tursoUrl: the variable is absent or empty
Falsy(url) == url \in {Undefined, ""}

\* tursoUrl.startsWith('libsql://')
StartsWithLibsql(url) == url \in {"libsql://db.turso.io", "libsql://"}

\* variant: a libsql:// URL always selects the synced mode
validateTursoConfig_tokenless(tursoUrl, tursoAuthToken) ==
    IF Falsy(tursoUrl) /\ ~tursoAuthToken THEN Null
    ELSE IF ~Falsy(tursoUrl) /\ StartsWithLibsql(tursoUrl) THEN "synced"
         ELSE "local"

\* TURSO_DATABASE_URL (or Undefined) and whether TURSO_AUTH_TOKEN is set
\* (non-empty)
validateTursoConfig(tursoUrl, tursoAuthToken) ==
    IF Falsy(tursoUrl) /\ ~tursoAuthToken THEN Null
    ELSE IF ~Falsy(tursoUrl) /\ StartsWithLibsql(tursoUrl)
         THEN IF ~tursoAuthToken THEN Null ELSE "synced"
         ELSE "local"

\* variant: the health check's answer is ignored
initializeTursoStorage_noHealthCheck(config, initOk, healthOk) ==
    config \in {"local", "synced"} /\ initOk

\* initializeTursoStorage returns the storage iff initialize succeeded and
\* the health check answered true; otherwise it throws
initializeTursoStorage(config, initOk, healthOk) ==
    config \in {"local", "synced"} /\ initOk /\ healthOk

\* the snapshots of the File document in the order migration replays them
RECURSIVE MigrationItems(_, _)
MigrationItems(doc, order) ==
    IF order = <<>> THEN <<>>
    ELSE [i \in 1..Len(doc[Head(order)].reviews) |->
             [repository |-> Head(order), review |-> doc[Head(order)].reviews[i]]]
         \o MigrationItems(doc, Tail(order))

\* variant: the first failing saveReview ends the replay
RECURSIVE MigrateLoop_abort(_, _, _, _, _, _, _, _)
MigrateLoop_abort(items, i, rows, id, count, synced, insertFail, syncFail) ==
    IF i > Len(items) \/ i \in insertFail
    THEN [rows |-> rows, nextId |-> id, migratedCount |-> count]
    ELSE IF synced /\ i \in syncFail
         THEN [rows |-> TursoInsert(rows, id, items[i].repository, items[i].review),
               nextId |-> id + 1, migratedCount |-> count]
         ELSE MigrateLoop_abort(items, i + 1,
                                TursoInsert(rows, id, items[i].repository, items[i].review),
                                id + 1, count + 1, synced, insertFail, syncFail)

\* the replay loop: saveReview per snapshot, a failure is logged and skipped
RECURSIVE MigrateLoop(_, _, _, _, _, _, _, _)
MigrateLoop(items, i, rows, id, count, synced, insertFail, syncFail) ==
    IF i > Len(items) THEN [rows |-> rows, nextId |-> id, migratedCount |-> count]
    ELSE IF i \in insertFail
         THEN MigrateLoop(items, i + 1, rows, id, count, synced, insertFail, syncFail)
         ELSE MigrateLoop(items, i + 1,
                          TursoInsert(rows, id, items[i].repository, items[i].review),
                          id + 1,
                          IF synced /\ i \in syncFail THEN count ELSE count + 1,
                          synced, insertFail, syncFail)

\* migrateFromFileStorage: what it leaves behind.  found: the document was
\* there; renamed: it was moved to the .backup path
migrateFromFileStorage(rows, id, synced, order, readOk, insertFail, syncFail, renameOk) ==
    IF ~fileExists
    THEN [found |-> FALSE, renamed |-> FALSE, attempted |-> 0,
          rows |-> rows, nextId |-> id, migratedCount |-> 0]
    ELSE IF ~readOk
    THEN [found |-> TRUE, renamed |-> FALSE, attempted |-> 0,
          rows |-> rows, nextId |-> id, migratedCount |-> 0]
    ELSE LET items == MigrationItems(fileDoc, order)
             done == MigrateLoop(items, 1, rows, id, 0, synced, insertFail, syncFail)
         IN  [found |-> TRUE, renamed |-> renameOk, attempted |-> Len(items),
              rows |-> done.rows, nextId |-> done.nextId,
              migratedCount |-> done.migratedCount]

---------------------------------------------------------------------------
(* storage-factory *)

\* createFileStorage: new FileStorage(), initialize() (mkdir of
\* .contributor/reviews, rethrown on failure), return
createFileStorage(fileInitOk) ==
    IF fileInitOk
    THEN [result |-> "file", raised |-> FALSE, trace |-> <<"fileInitOk", "return">>]
    ELSE [result |-> "none", raised |-> TRUE, trace |-> <<"fileInitFail", "raise">>]

\* the Turso branch is left by an exception (caught, falling back to File)
tursoBranchThrows(config, initOk, healthOk) ==
    IF config # Null THEN ~initializeTursoStorage(config, initOk, healthOk)
    ELSE ~initOk

\* variant: the migration call precedes the initialization of the backend
createStorage_migrateFirst(enableTursoStorage, dirAccessible, config, initOk, healthOk, fileInitOk, renamed) ==
    IF ~dirAccessible
    THEN LET f == createFileStorage(fileInitOk)
         IN  [f EXCEPT !.trace = <<"dirInaccessible">> \o f.trace]
    ELSE IF enableTursoStorage
    THEN IF tursoBranchThrows(config, initOk, healthOk)
         THEN LET f == createFileStorage(fileInitOk)
              IN  [f EXCEPT !.trace = <<"migrate", "tursoInitFail">> \o f.trace]
         ELSE [result |-> "turso", raised |-> FALSE,
               trace |-> <<"migrate">>
                         \o (IF renamed THEN <<"rename">> ELSE <<>>)
                         \o <<"tursoInitOk", "return">>]
    ELSE createFileStorage(fileInitOk)

\* createStorage: the backend returned (or the exception raised) and the
\* sequence of steps taken
createStorage(enableTursoStorage, dirAccessible, config, initOk, healthOk, fileInitOk, renamed) ==
    IF ~dirAccessible
    THEN LET f == createFileStorage(fileInitOk)
         IN  [f EXCEPT !.trace = <<"dirInaccessible">> \o f.trace]
    ELSE IF enableTursoStorage
    THEN IF tursoBranchThrows(config, initOk, healthOk)
         THEN LET f == createFileStorage(fileInitOk)
              IN  [f EXCEPT !.trace = <<"tursoInitFail">> \o f.trace]
         ELSE [result |-> "turso", raised |-> FALSE,
               trace |-> <<"tursoInitOk", "migrate">>
                         \o (IF renamed THEN <<"rename">> ELSE <<>>)
                         \o <<"return">>]
    ELSE createFileStorage(fileInitOk)

RepoOrders == { <<"A", "B">>, <<"B", "A">> }

\* the outcomes of the file and database operations of one migration: the
\* order of the document's keys, whether it could be read and renamed, and
\* the records whose INSERT or whose sync failed (at most MaxFail of them)
MigrationInputs(migrates, synced) ==
    IF ~(migrates /\ fileExists)
    THEN {[order |-> <<"A", "B">>, readOk |-> TRUE, renameOk |-> TRUE,
           insertFail |-> {}, syncFail |-> {}]}
    ELSE LET n == Len(MigrationItems(fileDoc, <<"A", "B">>))
             fails == { f \in SUBSET (1..n) : Cardinality(f) <= MaxFail }
         IN  {[order |-> <<"A", "B">>, readOk |-> FALSE, renameOk |-> TRUE,
               insertFail |-> {}, syncFail |-> {}]}
             \cup
             { m \in [order : RepoOrders, readOk : {TRUE}, renameOk : BOOLEAN,
                      insertFail : fails, syncFail : fails] :
                 /\ Cardinality(m.insertFail \cup m.syncFail) <= MaxFail
                 /\ m.insertFail \cap m.syncFail = {}
                 /\ ~synced => m.syncFail = {}
                 /\ (\E r \in Repos : fileDoc[r].reviews = <<>>) => m.order = <<"A", "B">> }

\* an outcome is drawn only for the steps the call reaches
Reached(enable, dirAccessible, config, initOk, healthOk, fileInitOk) ==
    /\ ~(dirAccessible /\ enable) => initOk
    /\ ~(dirAccessible /\ enable /\ config # Null /\ initOk) => healthOk
    /\ (dirAccessible /\ enable /\ ~tursoBranchThrows(config, initOk, healthOk)) => fileInitOk

\* one createStorage call with the given environment and outcomes
CreateStorageWith(enable, dirAccessible, url, token, initOk, healthOk, fileInitOk, m) ==
    LET config == validateTursoConfig(url, token)
        synced == (config = "synced")
        mig == migrateFromFileStorage(tursoRows, nextId, synced, m.order, m.readOk,
                                      m.insertFail, m.syncFail, m.renameOk)
        r == createStorage(enable, dirAccessible, config, initOk, healthOk,
                           fileInitOk, mig.renamed)
        migrated == (r.result = "turso")
    IN  /\ storage' = r.result
        /\ IF migrated
           THEN /\ tursoClient' = TRUE
                /\ tursoSynced' = synced
                /\ tursoRows' = mig.rows
                /\ nextId' = mig.nextId
                /\ IF mig.renamed
                   THEN /\ fileExists' = FALSE /\ fileDoc' = EmptyDoc
                        /\ backupExists' = TRUE /\ backupDoc' = fileDoc
                   ELSE UNCHANGED fileVars
           ELSE /\ tursoClient' = FALSE /\ tursoSynced' = FALSE
                /\ UNCHANGED <<tursoRows, nextId, fileVars>>
        /\ last' = [op |-> "createStorage", result |-> r.result, raised |-> r.raised,
                    trace |-> r.trace, enableTursoStorage |-> enable,
                    dirAccessible |-> dirAccessible, config |-> config,
                    initOk |-> initOk, healthOk |-> healthOk,
                    fileInitOk |-> fileInitOk,
                    migratedCount |-> IF migrated THEN mig.migratedCount ELSE 0,
                    found |-> migrated /\ mig.found,
                    attempted |-> IF migrated THEN mig.attempted ELSE 0,
                    failed |-> IF migrated /\ mig.found /\ m.readOk
                               THEN Cardinality(m.insertFail \cup m.syncFail) ELSE 0,
                    renameTried |-> migrated /\ mig.found /\ m.readOk,
                    renameOk |-> m.renameOk,
                    renamed |-> migrated /\ mig.renamed,
                    before |-> fileDoc, rowsBefore |-> Len(tursoRows)]

CreateStorage ==
    /\ runs < MaxCalls
    /\ \E enable \in BOOLEAN, dirAccessible \in BOOLEAN, url \in Urls, token \in BOOLEAN,
          initOk \in BOOLEAN, healthOk \in BOOLEAN, fileInitOk \in BOOLEAN :
       /\ Reached(enable, dirAccessible, validateTursoConfig(url, token),
                  initOk, healthOk, fileInitOk)
       /\ \E m \in MigrationInputs(
                 createStorage(enable, dirAccessible, validateTursoConfig(url, token),
                               initOk, healthOk, fileInitOk, FALSE).result = "turso",
                 validateTursoConfig(url, token) = "synced") :
            CreateStorageWith(enable, dirAccessible, url, token, initOk, healthOk,
                              fileInitOk, m)
    /\ runs' = runs + 1
    /\ lifecycle' = IF storage' = "none" THEN "initializeFailed" ELSE "initialized"
    /\ UNCHANGED <<ops, late, countVars, procVars, relVars>>

---------------------------------------------------------------------------
(* Storage operations through the backend createStorage returned *)

\* a failure is drawn only for the file operations whose outcome matters:
\* reading a missing document fails anyway, and after a failed write
\* nothing of what was read is kept
FileFaultsMatter(loadOk, readOk, writeOk) ==
    (~fileExists \/ ~writeOk) => (loadOk /\ readOk)

SaveReview ==
    /\ ops < MaxOps
    /\ storage # "none"
    /\ \E repository \in Repos, snapshot \in SnapshotInputs :
         \/ /\ storage = "file"
            /\ \E loadOk \in BOOLEAN, readOk \in BOOLEAN, writeOk \in BOOLEAN :
                 /\ FileFaultsMatter(loadOk, readOk, writeOk)
                 /\ FileStorage_saveReview(repository, snapshot, loadOk, readOk, writeOk)
            /\ UNCHANGED tursoVars
         \/ /\ storage = "turso"
            /\ \E insertOk \in BOOLEAN, syncOk \in BOOLEAN :
                 /\ (tursoSynced /\ insertOk) \/ syncOk
                 /\ TursoStorage_saveReview(repository, snapshot, insertOk, syncOk)
            /\ UNCHANGED fileVars
    /\ ops' = ops + 1
    /\ UNCHANGED <<storage, runs, late, lifecycle, countVars, procVars, relVars>>

\* the save a read directly follows, if any
SavedBefore == IF last.op = "saveReview" THEN last ELSE NoOp

GetReviewHistory ==
    /\ storage # "none"
    /\ last.op # "getReviewHistory"
    /\ \E repository \in Repos, prNumber \in PRs, readOk \in BOOLEAN :
         \E result \in (IF storage = "file"
                        THEN { FileStorage_getReviewHistory(repository, prNumber, readOk) }
                        ELSE TursoStorage_getReviewHistory(repository, prNumber, readOk)) :
            last' = [op |-> "getReviewHistory", backend |-> storage,
                     repository |-> repository, prNumber |-> prNumber,
                     readOk |-> readOk, result |-> result, after |-> SavedBefore]
    /\ UNCHANGED <<fileVars, tursoVars, storage, ops, runs, late, lifecycle, countVars, procVars, relVars>>

\* a process constructs a backend itself and initializes it:
\* new FileStorage(), createLocalTursoStorage() or createSyncedTursoStorage()
Initialize ==
    /\ runs < MaxRuns
    /\ \E backend \in {"file", "turso"}, synced \in BOOLEAN, initOk \in BOOLEAN :
         /\ backend = "file" => ~synced
         /\ storage' = IF initOk THEN backend ELSE "none"
         /\ tursoClient' = (backend = "turso" /\ initOk)
         /\ tursoSynced' = (backend = "turso" /\ initOk /\ synced)
         /\ last' = [op |-> "initialize", backend |-> backend, ok |-> initOk]
    /\ runs' = runs + 1
    /\ lifecycle' = IF storage' = "none" THEN "initializeFailed" ELSE "initialized"
    /\ UNCHANGED <<fileVars, tursoRows, nextId, ops, late, countVars, procVars, relVars>>

Init ==
    /\ fileExists = FALSE /\ fileDoc = EmptyDoc
    /\ InitCommon /\ InitCount0 /\ InitProc0

Next == Initialize \/ SaveReview \/ GetReviewHistory

Spec == Init /\ [][Next]_vars

---------------------------------------------------------------------------
(* Factory specification: createStorage calls of successive process runs,  *)
(* starting from the File documents earlier runs can have left behind.     *)

\* the reviews arrays of the initial File document
InitReviews ==
    { <<>>,
      <<Snapshot(1, 1, "MERGE", FALSE, Undefined)>>,
      <<Snapshot(1, 1, "MERGE", FALSE, Undefined),
        Snapshot(2, 1, "DONT_MERGE", TRUE, "7")>> }

InitFactory ==
    /\ fileExists \in BOOLEAN
    /\ fileDoc \in { [r \in Repos |-> [reviews |-> f[r], transitions |-> <<>>]] :
                       f \in [Repos -> InitReviews] }
    /\ ~fileExists => fileDoc = EmptyDoc
    /\ InitCommon /\ InitCount0 /\ InitProc0

NextFactory == CreateStorage

SpecFactory == InitFactory /\ [][NextFactory]_vars

---------------------------------------------------------------------------
(* Retention specification: NumSaves saves into one repository of an empty *)
(* document, every file operation succeeding.  Timestamps MaxLate + k      *)
(* arrive in order; up to MaxLate saves carry an older timestamp.          *)

CapRepo == "A"

CapSnapshot(ts) == Snapshot(ts, 1 + (ts % 2), "MERGE", FALSE, Undefined)

InitCap ==
    /\ fileExists = FALSE /\ fileDoc = EmptyDoc
    /\ InitCommon /\ InitCount0 /\ InitProc0

\* the next save carries the next timestamp
CapSaveInOrder ==
    /\ ops < NumSaves
    /\ FileStorage_saveReview(CapRepo, CapSnapshot(MaxLate + 1 + ops - late), TRUE, TRUE, TRUE)
    /\ ops' = ops + 1
    /\ UNCHANGED <<tursoVars, storage, runs, late, lifecycle, countVars, procVars, relVars>>

\* the next save carries a timestamp older than every one saved before
CapSaveLate ==
    /\ ops < NumSaves /\ late < MaxLate /\ ops > 0
    /\ FileStorage_saveReview(CapRepo, CapSnapshot(MaxLate - late), TRUE, TRUE, TRUE)
    /\ ops' = ops + 1 /\ late' = late + 1
    /\ UNCHANGED <<tursoVars, storage, runs, lifecycle, countVars, procVars, relVars>>

NextCap == CapSaveInOrder \/ CapSaveLate

SpecCap == InitCap /\ [][NextCap]_vars

---------------------------------------------------------------------------
(* review-history: countApprovalChanges *)

\* variant: every change of the literal outcome is counted
RECURSIVE countLoop_literal(_, _, _, _)
countLoop_literal(snaps, i, previousApprovalState, n) ==
    IF i > Len(snaps) THEN n
    ELSE IF snaps[i].reviewState # snaps[i - 1].reviewState
         THEN countLoop_literal(snaps, i + 1, previousApprovalState, n + 1)
         ELSE countLoop_literal(snaps, i + 1, previousApprovalState, n)

\* the loop from index i on, with the running approval state and the count
RECURSIVE countLoop(_, _, _, _)
countLoop(snaps, i, previousApprovalState, n) ==
    IF i > Len(snaps) THEN n
    ELSE LET currentApprovalState == (snaps[i].reviewState = "MERGE")
         IN  IF currentApprovalState # previousApprovalState
             THEN countLoop(snaps, i + 1, currentApprovalState, n + 1)
             ELSE countLoop(snaps, i + 1, previousApprovalState, n)

countApprovalChanges(snaps) ==
    IF Len(snaps) < 2 THEN 0
    ELSE countLoop(snaps, 2, snaps[1].reviewState = "MERGE", 0)

\* Counting specification: every sequence of up to MaxSnapshots review
\* states, as the snapshots of one PR at timestamps 1, 2, ...
RECURSIVE StateSeqs(_)
StateSeqs(n) ==
    IF n = 0 THEN { <<>> }
    ELSE StateSeqs(n - 1) \cup
         { Append(q, st) : q \in { x \in StateSeqs(n - 1) : Len(x) = n - 1 },
                           st \in ReviewStates }

InitCount ==
    /\ fileExists = FALSE /\ fileDoc = EmptyDoc
    /\ InitCommon
    /\ snapshots \in { [i \in 1..Len(q) |-> Snapshot(i, 1, q[i], FALSE, Undefined)] :
                         q \in StateSeqs(MaxSnapshots) }
    /\ changes = 0
    /\ pc = "idle"
    /\ InitProc0

CountApprovalChanges ==
    /\ pc = "idle"
    /\ changes' = countApprovalChanges(snapshots)
    /\ pc' = "done"
    /\ UNCHANGED <<fileVars, tursoVars, storage, last, ops, runs, late, lifecycle, snapshots, relVars, procVars>>

NextCount == CountApprovalChanges

SpecCount == InitCount /\ [][NextCount]_vars

---------------------------------------------------------------------------
(* getAllReviews *)

\* the optional argument limit: absent, or a number
NoLimit == <<>>
Limits == {NoLimit} \cup { <<k>> : k \in 0..MaxLimit }

\* `limit ? ... : ...`: an absent limit and the number 0 are falsy
Truthy(limit) == limit # NoLimit /\ limit[1] # 0

\* Array.prototype.slice(0, n) for n >= 0
SliceFirst(seq, n) == IF Len(seq) <= n THEN seq ELSE SubSeq(seq, 1, n)

\* Array.prototype.sort with the descending comparator: the sort is stable,
\* so an element is preceded by the newer ones and by the equally old ones
\* stored before it
SortDesc(seq) ==
    LET Rank(i) == 1 + Cardinality({ j \in 1..Len(seq) :
                        \/ seq[j].timestamp > seq[i].timestamp
                        \/ seq[j].timestamp = seq[i].timestamp /\ j < i })
        ranked == { <<Rank(i), i>> : i \in 1..Len(seq) }
    IN  [k \in 1..Len(seq) |-> seq[(CHOOSE r \in ranked : r[1] = k)[2]]]

\* variant: the limit is applied to the stored order, before sorting
FileStorage_getAllReviews_limitFirst(repository, limit, readOk) ==
    LET data == loadData(repository, readOk)
    IN  IF Truthy(limit) THEN SortDesc(SliceFirst(data.reviews, limit[1]))
        ELSE SortDesc(data.reviews)

FileStorage_getAllReviews(repository, limit, readOk) ==
    LET data == loadData(repository, readOk)
        reviews == SortDesc(data.reviews)
    IN  IF Truthy(limit) THEN SliceFirst(reviews, limit[1]) ELSE reviews

\* the arrangements of the rows with the given indices that descend by
\* timestamp (SQL leaves the order of equal keys open)
RECURSIVE DescOrders(_, _)
DescOrders(rows, idx) ==
    IF idx = {} THEN { <<>> }
    ELSE UNION { { <<rows[i]>> \o t : t \in DescOrders(rows, idx \ {i}) } :
                   i \in { j \in idx : \A k \in idx :
                                         rows[j].timestamp >= rows[k].timestamp } }

\* ORDER BY timestamp DESC
OrderByTimestampDesc(rows) == DescOrders(rows, 1..Len(rows))

\* variant: the WHERE clause is missing
TursoStorage_getAllReviews_noWhere(repository, limit, queryOk) ==
    IF queryOk
    THEN { MapRows(IF Truthy(limit) THEN SliceFirst(o, limit[1]) ELSE o) :
             o \in OrderByTimestampDesc(tursoRows) }
    ELSE { <<>> }

\* the results getAllReviews can return; a failed query yields []
TursoStorage_getAllReviews(repository, limit, queryOk) ==
    IF queryOk
    THEN { MapRows(IF Truthy(limit) THEN SliceFirst(o, limit[1]) ELSE o) :
             o \in OrderByTimestampDesc(
                     SelectSeq(tursoRows, LAMBDA r : r.repository = repository)) }
    ELSE { <<>> }

GetAllReviews ==
    /\ storage # "none"
    /\ last.op # "getAllReviews"
    /\ \E repository \in Repos, limit \in Limits, readOk \in BOOLEAN :
         \E result \in (IF storage = "file"
                        THEN { FileStorage_getAllReviews(repository, limit, readOk) }
                        ELSE TursoStorage_getAllReviews(repository, limit, readOk)) :
            last' = [op |-> "getAllReviews", backend |-> storage,
                     repository |-> repository, limit |-> limit,
                     readOk |-> readOk, result |-> result, after |-> last]
    /\ UNCHANGED <<fileVars, tursoVars, storage, ops, runs, late, lifecycle, countVars, procVars, relVars>>

---------------------------------------------------------------------------
(* Migration specification: successive process runs with Turso storage     *)
(* enabled and an accessible .contributor directory, starting from a File  *)
(* document earlier runs left behind.                                      *)

CreateStorageEnabled ==
    /\ runs < MaxMigrations
    /\ \E url \in Urls, token \in BOOLEAN,
          initOk \in BOOLEAN, healthOk \in BOOLEAN, fileInitOk \in BOOLEAN :
       /\ Reached(TRUE, TRUE, validateTursoConfig(url, token), initOk, healthOk, fileInitOk)
       /\ \E m \in MigrationInputs(
                 createStorage(TRUE, TRUE, validateTursoConfig(url, token),
                               initOk, healthOk, fileInitOk, FALSE).result = "turso",
                 validateTursoConfig(url, token) = "synced") :
            CreateStorageWith(TRUE, TRUE, url, token, initOk, healthOk, fileInitOk, m)
    /\ runs' = runs + 1
    /\ lifecycle' = IF storage' = "none" THEN "initializeFailed" ELSE "initialized"
    /\ UNCHANGED <<ops, late, countVars, procVars, relVars>>

InitMigrate ==
    /\ fileExists = TRUE
    /\ fileDoc \in { [r \in Repos |-> [reviews |-> f[r], transitions |-> <<>>]] :
                       f \in { g \in [Repos -> InitReviews] :
                                 Len(g["A"]) = Len(g["B"]) + 1 } }
    /\ InitCommon /\ InitCount0 /\ InitProc0

NextMigrate == CreateStorageEnabled

SpecMigrate == InitMigrate /\ [][NextMigrate]_vars

\* Listing specification: a createStorage call on such a document, and
\* listings through the backend it returned
NextList == CreateStorage \/ GetAllReviews

SpecList == InitMigrate /\ [][NextList]_vars

---------------------------------------------------------------------------
(* TursoStorage: saveApprovalTransition and runInTransaction *)

\* the transition a caller derives from the snapshot it saves: from the
\* state of the latest stored snapshot of the PR (UNKNOWN if none)
DerivedTransition(rows, repository, snapshot) ==
    LET prior == TursoSelect(rows, repository, snapshot.prNumber)
    IN  [timestamp |-> snapshot.timestamp, repository |-> repository,
         prNumber |-> snapshot.prNumber,
         fromState |-> IF prior = <<>> THEN "UNKNOWN"
                       ELSE prior[Len(prior)].reviewState,
         toState |-> snapshot.reviewState,
         triggerType |-> IF snapshot.codebunnyMentioned THEN "MENTION" ELSE "REVIEW"]

\* the outcomes of the statements of one call: TRUE where the statement
\* succeeds
TxFaults ==
    [beginOk : BOOLEAN, insertOk : BOOLEAN, syncReviewOk : BOOLEAN,
     transitionOk : BOOLEAN, syncTransitionOk : BOOLEAN,
     commitOk : BOOLEAN, syncCommitOk : BOOLEAN]

\* the statements issued by saveReview and whether it throws
TxSaveReview(synced, f) ==
    IF ~f.insertOk THEN [trace |-> <<"INSERT ReviewSnapshot">>, inserted |-> FALSE, thrown |-> TRUE]
    ELSE IF synced
         THEN [trace |-> <<"INSERT ReviewSnapshot", "sync">>, inserted |-> TRUE,
               thrown |-> ~f.syncReviewOk]
         ELSE [trace |-> <<"INSERT ReviewSnapshot">>, inserted |-> TRUE, thrown |-> FALSE]

\* the statements issued by saveApprovalTransition; its catch block only
\* warns, so it never throws
TxSaveApprovalTransition(synced, f) ==
    IF ~f.transitionOk
    THEN [trace |-> <<"INSERT ApprovalTransition">>, inserted |-> FALSE, thrown |-> FALSE]
    ELSE IF synced
         THEN [trace |-> <<"INSERT ApprovalTransition", "sync">>, inserted |-> TRUE,
               thrown |-> FALSE]
         ELSE [trace |-> <<"INSERT ApprovalTransition">>, inserted |-> TRUE, thrown |-> FALSE]

\* runInTransaction(fn) with fn = saveReview; saveApprovalTransition: the
\* statements issued, whether the call raises, and whether the two rows are
\* in the tables afterwards.  ROLLBACK of the open transaction undoes the
\* rows inserted since BEGIN; after COMMIT it has nothing to undo.
runInTransaction(synced, f) ==
    IF ~f.beginOk
    THEN [trace |-> <<"BEGIN">>, raised |-> TRUE, review |-> FALSE, transition |-> FALSE]
    ELSE LET s == TxSaveReview(synced, f)
             t == TxSaveApprovalTransition(synced, f)
         IN  IF s.thrown
             THEN [trace |-> <<"BEGIN">> \o s.trace \o <<"ROLLBACK">>,
                   raised |-> TRUE, review |-> FALSE, transition |-> FALSE]
             ELSE IF t.thrown
             THEN [trace |-> <<"BEGIN">> \o s.trace \o t.trace \o <<"ROLLBACK">>,
                   raised |-> TRUE, review |-> FALSE, transition |-> FALSE]
             ELSE IF ~f.commitOk
             THEN [trace |-> <<"BEGIN">> \o s.trace \o t.trace \o <<"COMMIT", "ROLLBACK">>,
                   raised |-> TRUE, review |-> FALSE, transition |-> FALSE]
             ELSE IF synced
             THEN [trace |-> <<"BEGIN">> \o s.trace \o t.trace \o <<"COMMIT", "sync">>
                             \o (IF f.syncCommitOk THEN <<>> ELSE <<"ROLLBACK">>),
                   raised |-> ~f.syncCommitOk,
                   review |-> s.inserted, transition |-> t.inserted]
             ELSE [trace |-> <<"BEGIN">> \o s.trace \o t.trace \o <<"COMMIT">>,
                   raised |-> FALSE, review |-> s.inserted, transition |-> t.inserted]

\* an outcome is drawn only for the statements the call reaches
TxReached(synced, f) ==
    LET inFn == f.beginOk
        reviewDone == inFn /\ f.insertOk /\ (synced => f.syncReviewOk)
    IN  /\ ~inFn => f.insertOk
        /\ ~(inFn /\ f.insertOk /\ synced) => f.syncReviewOk
        /\ ~reviewDone => f.transitionOk
        /\ ~(reviewDone /\ f.transitionOk /\ synced) => f.syncTransitionOk
        /\ ~reviewDone => f.commitOk
        /\ ~(reviewDone /\ f.commitOk /\ synced) => f.syncCommitOk

RunInTransaction ==
    /\ tursoClient
    /\ ops < MaxTx
    /\ \E repository \in Repos, snapshot \in SnapshotInputs, f \in TxFaults :
         /\ TxReached(tursoSynced, f)
         /\ LET r == runInTransaction(tursoSynced, f)
                transition == DerivedTransition(tursoRows, repository, snapshot)
            IN  /\ IF r.review
                   THEN /\ tursoRows' = TursoInsert(tursoRows, nextId, repository, snapshot)
                        /\ nextId' = nextId + 1
                   ELSE UNCHANGED <<tursoRows, nextId>>
                /\ tursoTransitions' = IF r.transition
                                       THEN Append(tursoTransitions, transition)
                                       ELSE tursoTransitions
                /\ last' = [op |-> "runInTransaction", repository |-> repository,
                            snapshot |-> snapshot, transition |-> transition,
                            synced |-> tursoSynced, faults |-> f,
                            raised |-> r.raised, trace |-> r.trace]
    /\ ops' = ops + 1
    /\ UNCHANGED <<fileVars, tursoClient, tursoSynced, storage, runs, late, lifecycle, countVars, procVars, prisma>>

\* Transaction specification: an initialized Turso backend, local or synced
InitTx ==
    /\ fileExists = FALSE /\ fileDoc = EmptyDoc
    /\ backupExists = FALSE /\ backupDoc = EmptyDoc
    /\ tursoClient = TRUE /\ tursoSynced \in BOOLEAN
    /\ tursoRows = <<>> /\ nextId = 1
    /\ storage = "turso"
    /\ last = NoOp
    /\ ops = 0 /\ runs = 0 /\ late = 0
    /\ tursoTransitions = <<>>
    /\ prisma = EmptyPrisma
    /\ lifecycle = "initialized"
    /\ InitCount0 /\ InitProc0

NextTx == RunInTransaction

SpecTx == InitTx /\ [][NextTx]_vars

---------------------------------------------------------------------------
(* PrismaStorage: recordReviewMetrics *)

PrismaRepo == "A"

\* the review states the callers save here
PrismaStates == {"MERGE", "DONT_MERGE", "MERGE_AFTER_CHANGES"}

\* findMany({where: {repository, prNumber}}), in the order of creation
PrismaSelect(rows, repository, prNumber) ==
    SelectSeq(rows, LAMBDA r : r.repository = repository /\ r.prNumber = prNumber)

\* variant: the lookup is not restricted to the PR
PreviousReviews_anyPR(rows, snapshot) ==
    LET found == SelectSeq(rows, LAMBDA r : r.repository = snapshot.repository)
    IN  [i \in 1..(IF Len(found) < 2 THEN Len(found) ELSE 2) |-> found[Len(found) + 1 - i]]

\* orderBy createdAt desc, take 2: the latest created first
PreviousReviews(rows, snapshot) ==
    LET found == PrismaSelect(rows, snapshot.repository, snapshot.prNumber)
    IN  [i \in 1..(IF Len(found) < 2 THEN Len(found) ELSE 2) |-> found[Len(found) + 1 - i]]

\* generateReviewId: repository, PR number and the instant of the call
generateReviewId(snapshot, now) == <<snapshot.repository, snapshot.prNumber, now>>

\* checkAndRecordApprovalTransition: the table approvalTransition after it;
\* a failing lookup or insert is logged and dropped
checkAndRecordApprovalTransition(rows, transitions, snapshot, reviewId, findOk, transitionOk) ==
    LET previousReviews == PreviousReviews(rows, snapshot)
    IN  IF findOk /\ Len(previousReviews) >= 2
           /\ previousReviews[2].reviewState # snapshot.reviewState
           /\ transitionOk
        THEN Append(transitions,
                    [timestamp |-> snapshot.timestamp, repository |-> snapshot.repository,
                     prNumber |-> snapshot.prNumber,
                     fromState |-> previousReviews[2].reviewState,
                     toState |-> snapshot.reviewState, reviewId |-> reviewId])
        ELSE transitions

\* recordReviewMetrics: a failing create is rethrown and stores nothing
PrismaStorage_recordReviewMetrics(db, snapshot, now, createOk, findOk, transitionOk) ==
    IF ~createOk THEN db
    ELSE LET rows == Append(db.reviewSnapshot, snapshot)
         IN  [reviewSnapshot |-> rows,
              approvalTransition |->
                  checkAndRecordApprovalTransition(rows, db.approvalTransition, snapshot,
                                                   generateReviewId(snapshot, now),
                                                   findOk, transitionOk)]

RecordReviewMetrics ==
    /\ ops < MaxRecords
    /\ \E prNumber \in PRs, reviewState \in PrismaStates,
          createOk \in BOOLEAN, findOk \in BOOLEAN, transitionOk \in BOOLEAN :
         LET snapshot == [timestamp |-> ops + 1, repository |-> PrismaRepo,
                          prNumber |-> prNumber, reviewState |-> reviewState]
             previous == PrismaSelect(prisma.reviewSnapshot, PrismaRepo, prNumber)
             differs == previous # <<>> /\ previous[Len(previous)].reviewState # reviewState
         IN  /\ ~createOk => findOk
             /\ ~(createOk /\ findOk /\ differs) => transitionOk
             /\ prisma' = PrismaStorage_recordReviewMetrics(prisma, snapshot, ops + 1,
                                                            createOk, findOk, transitionOk)
             /\ last' = [op |-> "recordReviewMetrics", snapshot |-> snapshot,
                         raised |-> ~createOk,
                         complete |-> createOk /\ findOk /\ transitionOk]
    /\ ops' = ops + 1
    /\ UNCHANGED <<fileVars, tursoVars, tursoTransitions, storage, runs, late, lifecycle, countVars, procVars>>

InitPrisma ==
    /\ fileExists = FALSE /\ fileDoc = EmptyDoc
    /\ InitCommon /\ InitCount0 /\ InitProc0

NextPrisma == RecordReviewMetrics

SpecPrisma == InitPrisma /\ [][NextPrisma]_vars

---------------------------------------------------------------------------
(* getStats *)

\* a nullable timestamp of StorageStats: null, or a timestamp
NullTimestamp == <<>>

\* approvedCount / total as a fraction; the literal 0 is 0/1
Rate(approvedCount, total) == [num |-> approvedCount, den |-> total]
ZeroRate == Rate(0, 1)

\* the result for an empty repository and after a failure
EmptyStats ==
    [totalReviews |-> 0, totalRepositories |-> 1, oldestReview |-> NullTimestamp,
     newestReview |-> NullTimestamp, approvalRate |-> ZeroRate]

\* Array.prototype.sort with the ascending comparator: the sort is stable,
\* so an element is preceded by the older ones and by the equally old ones
\* stored before it
SortAsc(seq) ==
    LET Rank(i) == 1 + Cardinality({ j \in 1..Len(seq) :
                        \/ seq[j].timestamp < seq[i].timestamp
                        \/ seq[j].timestamp = seq[i].timestamp /\ j < i })
        ranked == { <<Rank(i), i>> : i \in 1..Len(seq) }
    IN  [k \in 1..Len(seq) |-> seq[(CHOOSE r \in ranked : r[1] = k)[2]]]

ApprovedCount(reviews) ==
    Cardinality({ i \in 1..Len(reviews) : reviews[i].reviewState = "MERGE" })

\* variant: the stored order is taken for the order by date
FileStorage_getStats_unsorted(repository, readOk) ==
    LET reviews == loadData(repository, readOk).reviews
    IN  IF Len(reviews) = 0 THEN EmptyStats
        ELSE [totalReviews |-> Len(reviews), totalRepositories |-> 1,
              oldestReview |-> <<reviews[1].timestamp>>,
              newestReview |-> <<reviews[Len(reviews)].timestamp>>,
              approvalRate |-> Rate(ApprovedCount(reviews), Len(reviews))]

FileStorage_getStats(repository, readOk) ==
    LET reviews == loadData(repository, readOk).reviews
        sortedByDate == SortAsc(reviews)
    IN  IF Len(reviews) = 0 THEN EmptyStats
        ELSE [totalReviews |-> Len(reviews), totalRepositories |-> 1,
              oldestReview |-> <<sortedByDate[1].timestamp>>,
              newestReview |-> <<sortedByDate[Len(sortedByDate)].timestamp>>,
              approvalRate |-> Rate(ApprovedCount(reviews), Len(reviews))]

\* MIN(timestamp) and MAX(timestamp): NULL over no rows
SqlMin(rows) ==
    IF rows = <<>> THEN NullTimestamp
    ELSE <<CHOOSE t \in { rows[i].timestamp : i \in 1..Len(rows) } :
             \A i \in 1..Len(rows) : t <= rows[i].timestamp>>

SqlMax(rows) ==
    IF rows = <<>> THEN NullTimestamp
    ELSE <<CHOOSE t \in { rows[i].timestamp : i \in 1..Len(rows) } :
             \A i \in 1..Len(rows) : t >= rows[i].timestamp>>

\* the three queries of getStats; a failed query yields the empty result
TursoStorage_getStats(repository, queryOk) ==
    LET rows == SelectSeq(tursoRows, LAMBDA r : r.repository = repository)
        totalCount == Len(rows)
    IN  IF ~queryOk THEN EmptyStats
        ELSE [totalReviews |-> Len(rows), totalRepositories |-> 1,
              oldestReview |-> SqlMin(rows), newestReview |-> SqlMax(rows),
              approvalRate |-> IF totalCount > 0
                               THEN Rate(ApprovedCount(rows), totalCount)
                               ELSE ZeroRate]

GetStats ==
    /\ storage # "none"
    /\ last.op # "getStats"
    /\ \E repository \in Repos, readOk \in BOOLEAN :
         last' = [op |-> "getStats", backend |-> storage, repository |-> repository,
                  readOk |-> readOk,
                  result |-> IF storage = "file"
                             THEN FileStorage_getStats(repository, readOk)
                             ELSE TursoStorage_getStats(repository, readOk)]
    /\ UNCHANGED <<fileVars, tursoVars, storage, ops, runs, late, lifecycle, countVars, procVars, relVars>>

\* Statistics specification: NumSaves saves into one repository through an
\* initialized backend, every operation of the save succeeding; the k-th
\* save swaps timestamps with its neighbour and cycles through the states
StateCycle == <<"MERGE", "DONT_MERGE", "MERGE_AFTER_CHANGES", "UNKNOWN">>

StatsSnapshot(k) ==
    Snapshot(IF k % 2 = 1 THEN k + 1 ELSE k - 1, 1 + (k % 2),
             StateCycle[(k % 4) + 1], FALSE, Undefined)

StatsSave ==
    /\ ops < NumSaves
    /\ storage # "none"
    /\ IF storage = "file"
       THEN /\ FileStorage_saveReview(CapRepo, StatsSnapshot(ops + 1), TRUE, TRUE, TRUE)
            /\ UNCHANGED tursoVars
       ELSE /\ TursoStorage_saveReview(CapRepo, StatsSnapshot(ops + 1), TRUE, TRUE)
            /\ UNCHANGED fileVars
    /\ ops' = ops + 1
    /\ UNCHANGED <<storage, runs, late, lifecycle, countVars, procVars, relVars>>

InitStats ==
    /\ fileExists = FALSE /\ fileDoc = EmptyDoc
    /\ backupExists = FALSE /\ backupDoc = EmptyDoc
    /\ storage \in {"file", "turso"}
    /\ tursoClient = (storage = "turso") /\ tursoSynced = FALSE
    /\ tursoRows = <<>> /\ nextId = 1
    /\ last = NoOp
    /\ ops = 0 /\ runs = 0 /\ late = 0
    /\ tursoTransitions = <<>>
    /\ prisma = EmptyPrisma
    /\ lifecycle = "initialized"
    /\ InitCount0 /\ InitProc0

NextStats == StatsSave \/ GetStats

SpecStats == InitStats /\ [][NextStats]_vars

---------------------------------------------------------------------------
(* FileStorage.cleanup *)

\* cleanup: load, and if more than keepLast reviews are stored, keep
\* slice(-keepLast) of them and save; a failure is logged, never raised
FileStorage_cleanup(repository, keepLast, loadOk, readOk, writeOk) ==
    LET data == loadData(repository, loadOk)
        data2 == [data EXCEPT !.reviews = SliceLast(data.reviews, keepLast)]
        saves == Len(data.reviews) > keepLast
    IN  /\ IF saves /\ writeOk
           THEN /\ fileExists' = TRUE
                /\ fileDoc' = saveData(repository, data2, readOk)
           ELSE UNCHANGED <<fileExists, fileDoc>>
        /\ UNCHANGED <<backupExists, backupDoc>>
        /\ last' = [op |-> "cleanup", backend |-> "file", repository |-> repository,
                    keepLast |-> keepLast, before |-> fileDoc[repository].reviews,
                    ok |-> loadOk /\ readOk /\ writeOk, raised |-> FALSE]

\* Cleanup specification: MaxStored saves into one repository through the
\* File backend, with timestamps in any order, and cleanup calls
CleanupSave ==
    /\ ops < MaxStored
    /\ \E ts \in 1..MaxStored :
         FileStorage_saveReview(CapRepo, Snapshot(ts, 1, "MERGE", FALSE, Undefined),
                                TRUE, TRUE, TRUE)
    /\ ops' = ops + 1
    /\ UNCHANGED <<tursoVars, storage, runs, late, lifecycle, countVars, procVars, relVars>>

Cleanup ==
    /\ runs < MaxCleanups
    /\ \E keepLast \in 0..MaxKeep, loadOk \in BOOLEAN, readOk \in BOOLEAN,
          writeOk \in BOOLEAN :
         /\ FileFaultsMatter(loadOk, readOk, writeOk)
         /\ FileStorage_cleanup(CapRepo, keepLast, loadOk, readOk, writeOk)
    /\ runs' = runs + 1
    /\ UNCHANGED <<tursoVars, storage, ops, late, lifecycle, countVars, procVars, relVars>>

InitCleanup ==
    /\ fileExists = FALSE /\ fileDoc = EmptyDoc
    /\ backupExists = FALSE /\ backupDoc = EmptyDoc
    /\ tursoClient = FALSE /\ tursoSynced = FALSE
    /\ tursoRows = <<>> /\ nextId = 1
    /\ storage = "file"
    /\ last = NoOp
    /\ ops = 0 /\ runs = 0 /\ late = 0
    /\ tursoTransitions = <<>>
    /\ prisma = EmptyPrisma
    /\ lifecycle = "initialized"
    /\ InitCount0 /\ InitProc0

NextCleanup == CleanupSave \/ Cleanup

SpecCleanup == InitCleanup /\ [][NextCleanup]_vars

---------------------------------------------------------------------------
(* Backend life cycle: initialize, healthCheck, the read operations, close *)

\* FileStorage.initialize: mkdir -p .contributor/reviews
FileStorage_initialize(mkdirOk) == [client |-> FALSE, ok |-> mkdirOk]

\* TursoStorage.initialize: createClient, then createTables; the client
\* stays assigned when createTables throws
TursoStorage_initialize(client, createClientOk, createTablesOk) ==
    [client |-> createClientOk \/ client, ok |-> createClientOk /\ createTablesOk]

\* TursoStorage.close drops the client
TursoStorage_close(client) == FALSE

\* the boolean a healthCheck returns, or nothing when it raises
Returned(b) == <<b>>
NoResult == <<>>

FileStorage_healthCheck(accessOk) == [raised |-> FALSE, result |-> Returned(accessOk)]

\* variant: a failing SELECT 1 is not caught
TursoStorage_healthCheck_noCatch(client, answers) ==
    IF ~client THEN [raised |-> FALSE, result |-> Returned(FALSE)]
    ELSE IF answers THEN [raised |-> FALSE, result |-> Returned(TRUE)]
    ELSE [raised |-> TRUE, result |-> NoResult]

\* TursoStorage.healthCheck: false without a client, else whether SELECT 1
\* succeeds
TursoStorage_healthCheck(client, answers) ==
    IF ~client THEN [raised |-> FALSE, result |-> Returned(FALSE)]
    ELSE IF answers THEN [raised |-> FALSE, result |-> Returned(TRUE)]
    ELSE [raised |-> FALSE, result |-> Returned(FALSE)]

FileStorage_getApprovalTransitions(repository, prNumber, readOk) ==
    LET data == loadData(repository, readOk)
    IN  SelectSeq(data.transitions, LAMBDA t : t.prNumber = prNumber)

\* the object a row of the table ApprovalTransition is mapped to
rowToTransition(row) ==
    [timestamp |-> row.timestamp, repository |-> row.repository,
     prNumber |-> row.prNumber, fromState |-> row.fromState,
     toState |-> row.toState, triggerType |-> row.triggerType]

\* the results getApprovalTransitions can return; a failed query yields []
TursoStorage_getApprovalTransitions(repository, prNumber, queryOk) ==
    IF queryOk
    THEN { [i \in 1..Len(o) |-> rowToTransition(o[i])] :
             o \in OrderByTimestampAsc(TursoSelect(tursoTransitions, repository, prNumber)) }
    ELSE { <<>> }

ReadOps == {"getReviewHistory", "getApprovalTransitions", "getStats", "getAllReviews"}

\* the outcome of a call that raised, and of one that returned
Raised == [raised |-> TRUE]
Result(r) == [raised |-> FALSE, result |-> r]

\* the outcomes of a read operation of the File backend: every operation
\* catches what loadData and the filtering throw
FileStorage_read(op, repository, prNumber, readOk) ==
    CASE op = "getReviewHistory" ->
           { Result(FileStorage_getReviewHistory(repository, prNumber, readOk)) }
      [] op = "getApprovalTransitions" ->
           { Result(FileStorage_getApprovalTransitions(repository, prNumber, readOk)) }
      [] op = "getStats" -> { Result(FileStorage_getStats(repository, readOk)) }
      [] op = "getAllReviews" ->
           { Result(FileStorage_getAllReviews(repository, NoLimit, readOk)) }

\* the outcomes of a read operation of the Turso backend: each one starts
\* with `if (!this.client) throw new Error('Turso storage not initialized')`
TursoStorage_read(op, client, repository, prNumber, queryOk) ==
    IF ~client THEN { Raised }
    ELSE CASE op = "getReviewHistory" ->
                { Result(r) : r \in TursoStorage_getReviewHistory(repository, prNumber, queryOk) }
           [] op = "getApprovalTransitions" ->
                { Result(r) : r \in TursoStorage_getApprovalTransitions(repository, prNumber, queryOk) }
           [] op = "getStats" -> { Result(TursoStorage_getStats(repository, queryOk)) }
           [] op = "getAllReviews" ->
                { Result(r) : r \in TursoStorage_getAllReviews(repository, NoLimit, queryOk) }

\* variant: the table is created anew
CreateTableIfNotExists_recreate(table) == <<>>

\* CREATE TABLE IF NOT EXISTS: a table that exists keeps its rows (a missing
\* table and an empty one are both the empty sequence)
CreateTableIfNotExists(table) == table

LifeInitialize ==
    /\ runs < MaxInits
    /\ \E createClientOk \in BOOLEAN, createTablesOk \in BOOLEAN :
         /\ (storage = "file" \/ ~createClientOk) => createTablesOk
         /\ LET r == IF storage = "file" THEN FileStorage_initialize(createClientOk)
                     ELSE TursoStorage_initialize(tursoClient, createClientOk, createTablesOk)
                created == storage = "turso" /\ r.ok
            IN  /\ tursoClient' = r.client
                /\ tursoRows' = IF created THEN CreateTableIfNotExists(tursoRows)
                                ELSE tursoRows
                /\ tursoTransitions' = IF created
                                       THEN CreateTableIfNotExists(tursoTransitions)
                                       ELSE tursoTransitions
                /\ lifecycle' = IF r.ok THEN "initialized" ELSE "initializeFailed"
                /\ last' = [op |-> "initialize", backend |-> storage, ok |-> r.ok,
                            answers |-> createClientOk /\ createTablesOk]
    /\ runs' = runs + 1
    /\ UNCHANGED <<fileVars, tursoSynced, nextId, storage, ops, late, countVars, procVars, prisma>>

LifeClose ==
    /\ storage = "turso"
    /\ lifecycle # "closed"
    /\ tursoClient' = TursoStorage_close(tursoClient)
    /\ lifecycle' = "closed"
    /\ last' = [op |-> "close", backend |-> storage]
    /\ UNCHANGED <<fileVars, tursoSynced, tursoRows, nextId, storage, ops, runs, late,
                   countVars, procVars, relVars>>

HealthCheck ==
    /\ \E answers \in BOOLEAN :
         LET r == IF storage = "file" THEN FileStorage_healthCheck(answers)
                  ELSE TursoStorage_healthCheck(tursoClient, answers)
         IN  last' = [op |-> "healthCheck", backend |-> storage, answers |-> answers,
                      raised |-> r.raised, result |-> r.result]
    /\ UNCHANGED <<fileVars, tursoVars, storage, ops, runs, late, lifecycle, countVars, procVars,
                   relVars>>

LifeRead ==
    /\ \E op \in ReadOps, repository \in Repos, prNumber \in PRs, readOk \in BOOLEAN :
         /\ (storage = "turso" /\ ~tursoClient) => readOk    \* no query is made
         /\ \E r \in (IF storage = "file"
                      THEN FileStorage_read(op, repository, prNumber, readOk)
                      ELSE TursoStorage_read(op, tursoClient, repository, prNumber, readOk)) :
               last' = [op |-> op, backend |-> storage, repository |-> repository,
                        prNumber |-> prNumber, readOk |-> readOk, outcome |-> r]
    /\ UNCHANGED <<fileVars, tursoVars, storage, ops, runs, late, lifecycle, countVars, procVars,
                   relVars>>

\* the transition between the two reviews of the longest initial history
InitTransitions(reviews) ==
    IF Len(reviews) < 2 THEN <<>>
    ELSE <<[timestamp |-> reviews[2].timestamp, repository |-> CapRepo,
            prNumber |-> reviews[2].prNumber, fromState |-> reviews[1].reviewState,
            toState |-> reviews[2].reviewState, triggerType |-> "MENTION"]>>

\* Life-cycle specification: a backend object that has just been
\* constructed, over the data earlier runs left in its store
InitLife ==
    /\ storage \in {"file", "turso"}
    /\ \E reviews \in InitReviews :
         /\ fileExists = (storage = "file" /\ reviews # <<>>)
         /\ fileDoc = IF storage = "file"
                      THEN [EmptyDoc EXCEPT ![CapRepo] =
                              [reviews |-> reviews, transitions |-> InitTransitions(reviews)]]
                      ELSE EmptyDoc
         /\ tursoRows = IF storage = "turso"
                        THEN [i \in 1..Len(reviews) |-> snapshotToRow(i, CapRepo, reviews[i])]
                        ELSE <<>>
         /\ nextId = Len(tursoRows) + 1
         /\ tursoTransitions = IF storage = "turso" THEN InitTransitions(reviews) ELSE <<>>
    /\ backupExists = FALSE /\ backupDoc = EmptyDoc
    /\ tursoClient = FALSE /\ tursoSynced = FALSE
    /\ last = NoOp
    /\ ops = 0 /\ runs = 0 /\ late = 0
    /\ prisma = EmptyPrisma
    /\ lifecycle = "constructed"
    /\ InitCount0 /\ InitProc0

NextLife == LifeInitialize \/ LifeClose \/ HealthCheck \/ LifeRead

SpecLife == InitLife /\ [][NextLife]_vars

---------------------------------------------------------------------------
(* Historical validator *)

Authors == {"alice", "bob"}

\* String.prototype.toLowerCase on the words and phrases of the model
toLowerCase(w) ==
    CASE w = "Fix" -> "fix"
      [] w = "Login" -> "login"
      [] w = "Security" -> "security"
      [] OTHER -> w

\* w.length of a lower-case title word
WordLength(w) ==
    CASE w \in {"fix", "bug"} -> 3
      [] w \in {"login", "cache"} -> 5
      [] w = "warmup" -> 6

\* title.toLowerCase().split(/\s+/).filter((w) => w.length > 3) as a Set;
\* a title is the sequence of its words
TitleWords(title) ==
    { w \in { toLowerCase(title[i]) : i \in 1..Len(title) } : WordLength(w) > 3 }

Max(a, b) == IF a >= b THEN a ELSE b

\* the values Math.random() * 10 takes in the model, in units of
\* 1 / JitterDen: 0, just below 5 and just below 10
Jitters == {0, (JitterRange * JitterDen) \div 2 - 1, JitterRange * JitterDen - 1}

\* variant: the title weight is granted per common word
Score_perWord(review, currentPR, j) ==
    LET commonWords == TitleWords(currentPR.title) \cap TitleWords(review.prTitle)
        author == IF review.prAuthor = currentPR.author THEN AuthorWeight ELSE 0
    IN  [num |-> author * JitterDen + TitleWeight * Cardinality(commonWords) * JitterDen + j,
         den |-> JitterDen]

\* the score of a historical review before rounding, as the fraction
\* num / den; j / JitterDen is the random term
Score(review, currentPR, j) ==
    LET currentWords == TitleWords(currentPR.title)
        reviewWords == TitleWords(review.prTitle)
        commonWords == currentWords \cap reviewWords
        m == Max(Cardinality(currentWords), 1)
        author == IF review.prAuthor = currentPR.author THEN AuthorWeight ELSE 0
    IN  [num |-> author * m * JitterDen
                   + TitleWeight * Cardinality(commonWords) * JitterDen + j * m,
         den |-> m * JitterDen]

\* Math.round of a non-negative fraction: halves go up
Round(q) == (2 * q.num + q.den) \div (2 * q.den)

\* Array.prototype.sort with (a, b) => b.similarity - a.similarity: stable
SortBySimilarity(seq) ==
    LET Rank(i) == 1 + Cardinality({ j \in 1..Len(seq) :
                        \/ seq[j].similarity > seq[i].similarity
                        \/ seq[j].similarity = seq[i].similarity /\ j < i })
    IN  [k \in 1..Len(seq) |-> seq[CHOOSE i \in 1..Len(seq) : Rank(i) = k]]

\* .filter((s) => s.similarity > 20)
Similar(s) == s.similarity > SimilarityThreshold

findSimilarPRs(reviews, currentPR, jitter) ==
    LET similarities ==
            [i \in 1..Len(reviews) |->
                [prNumber |-> reviews[i].prNumber, prTitle |-> reviews[i].prTitle,
                 reviewState |-> reviews[i].reviewState,
                 similarity |-> Round(Score(reviews[i], currentPR, jitter[i]))]]
    IN  SelectSeq(SliceFirst(SortBySimilarity(similarities), MaxSimilar), Similar)

\* the issue patterns, in the order they are looked for
Patterns ==
    << [keyword |-> "security", priority |-> "high"],
       [keyword |-> "vulnerability", priority |-> "high"],
       [keyword |-> "memory leak", priority |-> "high"],
       [keyword |-> "performance", priority |-> "medium"],
       [keyword |-> "test", priority |-> "medium"],
       [keyword |-> "documentation", priority |-> "low"],
       [keyword |-> "type error", priority |-> "medium"],
       [keyword |-> "error handling", priority |-> "medium"] >>

\* the keywords a lower-case phrase of a review text contains as substrings
KeywordsIn(phrase) ==
    CASE phrase = "security" -> {"security"}
      [] phrase = "latest" -> {"test"}
      [] phrase = "documentation" -> {"documentation"}
      [] phrase = "memory leak" -> {"memory leak"}
      [] OTHER -> {}

\* review.reviewText.toLowerCase().includes(keyword); a text is the sequence
\* of its phrases
Includes(text, keyword) ==
    \E i \in 1..Len(text) : keyword \in KeywordsIn(toLowerCase(text[i]))

\* data.highPriority > data.count / 2 ? 'high' : 'medium'
IssuePriority(highPriority, count) ==
    IF 2 * highPriority > count THEN "high" ELSE "medium"

identifyCommonIssues(reviews) ==
    LET Count(p) == Cardinality({ i \in 1..Len(reviews) :
                        Includes(reviews[i].reviewText, Patterns[p].keyword) })
        HighPriority(p) == IF Patterns[p].priority = "high" THEN Count(p) ELSE 0
        found == { p \in 1..Len(Patterns) : Count(p) > 0 }
        FirstIn(p) == CHOOSE i \in 1..Len(reviews) :
                        /\ Includes(reviews[i].reviewText, Patterns[p].keyword)
                        /\ \A j \in 1..(i - 1) :
                              ~Includes(reviews[j].reviewText, Patterns[p].keyword)
        \* Object.entries lists the keys in insertion order, and the sort by
        \* descending frequency is stable
        Precedes(p, q) ==
            \/ Count(p) > Count(q)
            \/ /\ Count(p) = Count(q)
               /\ \/ FirstIn(p) < FirstIn(q)
                  \/ FirstIn(p) = FirstIn(q) /\ p < q
        Rank(p) == 1 + Cardinality({ q \in found : Precedes(q, p) })
        Entry(p) == [issue |-> Patterns[p].keyword, frequency |-> Count(p),
                     priority |-> IssuePriority(HighPriority(p), Count(p))]
        entries == [k \in 1..Cardinality(found) |->
                      Entry(CHOOSE p \in found : Rank(p) = k)]
    IN  SliceFirst(entries, MaxIssues)

\* variant: the author's approvals are counted over all reviews
analyzeApprovalPatterns_allApprovals(reviews, currentPR) ==
    LET authorReviews == SelectSeq(reviews, LAMBDA r : r.prAuthor = currentPR.author)
    IN  [authorApprovalRate |-> IF Len(authorReviews) > 0
                                THEN Rate(ApprovedCount(reviews), Len(authorReviews))
                                ELSE ZeroRate,
         similarFilesApprovalRate |-> IF Len(reviews) > 0
                                      THEN Rate(ApprovedCount(reviews), Len(reviews))
                                      ELSE ZeroRate,
         avgTimeToApproval |-> Null]

analyzeApprovalPatterns(reviews, currentPR) ==
    LET authorReviews == SelectSeq(reviews, LAMBDA r : r.prAuthor = currentPR.author)
        authorApprovals == ApprovedCount(authorReviews)
        totalReviews == Len(reviews)
        totalApprovals == ApprovedCount(reviews)
    IN  [authorApprovalRate |-> IF Len(authorReviews) > 0
                                THEN Rate(authorApprovals, Len(authorReviews))
                                ELSE ZeroRate,
         similarFilesApprovalRate |-> IF totalReviews > 0
                                      THEN Rate(totalApprovals, totalReviews)
                                      ELSE ZeroRate,
         avgTimeToApproval |-> Null]

\* a recommendation: which template, and the values it is filled with
Recommendation(message, count, issues, percent) ==
    [message |-> message, count |-> count, issues |-> issues, percent |-> percent]

\* Math.round(rate * 100)
Percent(rate) == Round([num |-> 100 * rate.num, den |-> rate.den])

generateRecommendations(similarPRs, commonIssues, approvalPatterns) ==
    LET approvedCount == ApprovedCount(similarPRs)
        rejectedCount == Len(SelectSeq(similarPRs, LAMBDA pr : pr.reviewState = "DONT_MERGE"))
        rate == approvalPatterns.authorApprovalRate
        issuesOf(seq) == [i \in 1..Len(seq) |-> seq[i].issue]
        highPriorityIssues == SelectSeq(commonIssues, LAMBDA i : i.priority = "high")
    IN  (IF Len(similarPRs) > 0 /\ rejectedCount > approvedCount
         THEN <<Recommendation("similarChallenges", 0, <<>>, 0)>> ELSE <<>>)
        \o (IF Len(similarPRs) >= 3
            THEN <<Recommendation("similarFound", Len(similarPRs), <<>>, 0)>> ELSE <<>>)
        \o (IF Len(commonIssues) > 0
            THEN <<Recommendation("commonIssues", 0,
                                  issuesOf(SliceFirst(commonIssues, 3)), 0)>>
            ELSE <<>>)
        \o (IF Len(highPriorityIssues) > 0
            THEN <<Recommendation("highPriorityIssues", 0, issuesOf(highPriorityIssues), 0)>>
            ELSE <<>>)
        \o (IF 2 * rate.num < rate.den /\ rate.num > 0
            THEN <<Recommendation("authorScrutiny", 0, <<>>, Percent(rate))>>
            ELSE IF 10 * rate.num > 8 * rate.den
                 THEN <<Recommendation("authorStrong", 0, <<>>, Percent(rate))>>
                 ELSE <<>>)

getEmptyInsights ==
    [similarPRs |-> <<>>, commonIssues |-> <<>>,
     approvalPatterns |-> [authorApprovalRate |-> ZeroRate,
                           similarFilesApprovalRate |-> ZeroRate,
                           avgTimeToApproval |-> Null],
     recommendations |-> <<Recommendation("baseline", 0, <<>>, 0)>>]

\* storage.getAllReviews(repository, limit): what the call returns, or that
\* it raised
getAllReviews(backend, client, repository, limit, readOk) ==
    IF backend = "file"
    THEN { Result(FileStorage_getAllReviews(repository, limit, readOk)) }
    ELSE IF ~client THEN { Raised }
         ELSE { Result(r) : r \in TursoStorage_getAllReviews(repository, limit, readOk) }

\* variant: no analysis is skipped for an empty history
validateAgainstHistory_noColdStart(read, currentPR, jitter) ==
    IF read.raised THEN Result(getEmptyInsights)
    ELSE LET allReviews == read.result
             similarPRs == findSimilarPRs(allReviews, currentPR, jitter)
             commonIssues == identifyCommonIssues(allReviews)
             approvalPatterns == analyzeApprovalPatterns(allReviews, currentPR)
         IN  Result([similarPRs |-> similarPRs, commonIssues |-> commonIssues,
                     approvalPatterns |-> approvalPatterns,
                     recommendations |->
                         generateRecommendations(similarPRs, commonIssues,
                                                 approvalPatterns)])

\* variant: what the storage raises is not caught
validateAgainstHistory_noCatch(read, currentPR, jitter) ==
    IF read.raised THEN Raised
    ELSE IF Len(read.result) = 0 THEN Result(getEmptyInsights)
    ELSE LET allReviews == read.result
             similarPRs == findSimilarPRs(allReviews, currentPR, jitter)
             commonIssues == identifyCommonIssues(allReviews)
             approvalPatterns == analyzeApprovalPatterns(allReviews, currentPR)
         IN  Result([similarPRs |-> similarPRs, commonIssues |-> commonIssues,
                     approvalPatterns |-> approvalPatterns,
                     recommendations |->
                         generateRecommendations(similarPRs, commonIssues,
                                                 approvalPatterns)])

\* validateAgainstHistory, given the outcome of its storage read and the
\* random terms: whatever is thrown inside is caught and answered with the
\* empty insights
validateAgainstHistory(read, currentPR, jitter) ==
    IF read.raised THEN Result(getEmptyInsights)
    ELSE IF Len(read.result) = 0 THEN Result(getEmptyInsights)
    ELSE LET allReviews == read.result
             similarPRs == findSimilarPRs(allReviews, currentPR, jitter)
             commonIssues == identifyCommonIssues(allReviews)
             approvalPatterns == analyzeApprovalPatterns(allReviews, currentPR)
         IN  Result([similarPRs |-> similarPRs, commonIssues |-> commonIssues,
                     approvalPatterns |-> approvalPatterns,
                     recommendations |->
                         generateRecommendations(similarPRs, commonIssues,
                                                 approvalPatterns)])

\* a stored review of the validator specifications
HistoricalReview(ts, pr, author, title, st, text) ==
    [timestamp |-> ts, prNumber |-> pr, prTitle |-> title, prAuthor |-> author,
     reviewState |-> st, reviewText |-> text, codebunnyMentioned |-> FALSE,
     commentId |-> Undefined]

\* the k-th review saved: by either author, approved or not, with and
\* without title words and issue keywords
HistoryInputs(k) ==
    { HistoricalReview(k, k, "alice", <<"Fix", "login", "bug">>, "MERGE", <<"Security">>),
      HistoricalReview(k, k, "alice", <<"fix", "bug">>, "DONT_MERGE", <<"documentation">>),
      HistoricalReview(k, k, "bob", <<"Login", "cache">>, "DONT_MERGE",
                       <<"latest", "documentation">>),
      HistoricalReview(k, k, "bob", <<"fix", "bug">>, "MERGE", <<>>),
      HistoricalReview(k, k, "bob", <<"cache", "warmup">>, "MERGE_AFTER_CHANGES",
                       <<"Security", "memory leak">>) }

\* the pull requests under review
CurrentPRs ==
    { [number |-> 42, title |-> t, author |-> a] :
        t \in { <<"Fix", "login", "bug">>, <<"Login", "cache">>, <<"fix", "bug">> },
        a \in Authors }

ValidatorSaveOf(review) ==
    /\ storage # "none"
    /\ IF storage = "file"
       THEN /\ FileStorage_saveReview(CapRepo, review, TRUE, TRUE, TRUE)
            /\ UNCHANGED tursoVars
       ELSE /\ TursoStorage_saveReview(CapRepo, review, TRUE, TRUE)
            /\ UNCHANGED fileVars
    /\ ops' = ops + 1
    /\ UNCHANGED <<storage, runs, late, lifecycle, countVars, procVars, relVars>>

ValidatorSave ==
    /\ ops < MaxHistory
    /\ tursoClient = (storage = "turso")
    /\ \E review \in HistoryInputs(ops + 1) : ValidatorSaveOf(review)

\* one validateAgainstHistory call for a pull request, with the outcome of
\* the storage read and the random terms of the scores
ValidateWith(prs, jitters) ==
    /\ last.op # "validateAgainstHistory"
    /\ \E currentPR \in prs, readOk \in BOOLEAN :
         /\ (storage = "turso" /\ ~tursoClient) => readOk    \* no query is made
         /\ \E read \in getAllReviews(storage, tursoClient, CapRepo,
                                      <<HistoryLimit>>, readOk) :
              \E jitter \in [1..(IF read.raised THEN 0 ELSE Len(read.result)) -> jitters] :
                 last' = [op |-> "validateAgainstHistory", backend |-> storage,
                          repository |-> CapRepo, currentPR |-> currentPR,
                          readOk |-> readOk, read |-> read, jitter |-> jitter,
                          outcome |-> validateAgainstHistory(read, currentPR, jitter)]
    /\ UNCHANGED <<fileVars, tursoVars, storage, ops, runs, late, lifecycle, countVars, procVars,
                   relVars>>

ValidateAgainstHistory == ValidateWith(CurrentPRs, Jitters)

\* Validator specification: a File backend, an initialized Turso backend or
\* a Turso backend that was never initialized, with up to MaxHistory reviews
InitValidate ==
    /\ fileExists = FALSE /\ fileDoc = EmptyDoc
    /\ backupExists = FALSE /\ backupDoc = EmptyDoc
    /\ storage \in {"file", "turso"}
    /\ tursoClient \in BOOLEAN /\ (storage = "file" => ~tursoClient)
    /\ tursoSynced = FALSE
    /\ tursoRows = <<>> /\ nextId = 1
    /\ last = NoOp
    /\ ops = 0 /\ runs = 0 /\ late = 0
    /\ tursoTransitions = <<>>
    /\ prisma = EmptyPrisma
    /\ lifecycle = IF storage = "turso" /\ ~tursoClient THEN "constructed" ELSE "initialized"
    /\ InitCount0 /\ InitProc0

NextValidate == ValidatorSave \/ ValidateAgainstHistory

SpecValidate == InitValidate /\ [][NextValidate]_vars

\* Ranking specification: up to MaxRanked reviews, each by another author
\* with half of the title words in common or by the same author with none,
\* and the least or the greatest random term for each score
RankInputs(k) ==
    { HistoricalReview(k, k, "bob", <<"Fix", "login", "bug">>, "DONT_MERGE", <<>>),
      HistoricalReview(k, k, "alice", <<"fix", "bug">>, "MERGE", <<>>) }

RankPRs == { [number |-> 42, title |-> <<"Login", "cache">>, author |-> "alice"] }

RankJitters == {0, JitterRange * JitterDen - 1}

RankSave ==
    /\ ops < MaxRanked
    /\ tursoClient = (storage = "turso")
    /\ \E review \in RankInputs(ops + 1) : ValidatorSaveOf(review)

RankValidate == ValidateWith(RankPRs, RankJitters)

NextRank == RankSave \/ RankValidate

SpecRank == InitValidate /\ [][NextRank]_vars

---------------------------------------------------------------------------
(* FileStorage.saveApprovalTransition *)

\* variant: the first maxTransitions transitions are kept
TransitionTrim_keepFirst(transitions) ==
    IF Len(transitions) > maxTransitions THEN SliceFirst(transitions, maxTransitions)
    ELSE transitions

\* the transitions array saveApprovalTransition persists: push, then trim
TransitionTrim(transitions) ==
    IF Len(transitions) > maxTransitions THEN SliceLast(transitions, maxTransitions)
    ELSE transitions

\* saveApprovalTransition: a failure is logged, never raised
FileStorage_saveApprovalTransition(transition, loadOk, readOk, writeOk) ==
    LET data == loadData(transition.repository, loadOk)
        kept == TransitionTrim(Append(data.transitions, transition))
        data2 == [data EXCEPT !.transitions = kept]
    IN  /\ IF writeOk
           THEN /\ fileExists' = TRUE
                /\ fileDoc' = saveData(transition.repository, data2, readOk)
           ELSE UNCHANGED <<fileExists, fileDoc>>
        /\ UNCHANGED <<backupExists, backupDoc>>
        /\ last' = [op |-> "saveApprovalTransition", backend |-> "file",
                    repository |-> transition.repository, transition |-> transition,
                    ok |-> writeOk, raised |-> FALSE]

\* the k-th transition saved: every review of PR 1 flips the outcome
CapTransition(k) ==
    [timestamp |-> k, repository |-> CapRepo, prNumber |-> 1,
     fromState |-> IF k % 2 = 1 THEN "MERGE" ELSE "DONT_MERGE",
     toState |-> IF k % 2 = 1 THEN "DONT_MERGE" ELSE "MERGE",
     triggerType |-> "REVIEW"]

\* Transition cap specification: NumTransitions saves into one repository
\* that holds no, one or two reviews, every file operation succeeding
TransitionCapSave ==
    /\ ops < NumTransitions
    /\ FileStorage_saveApprovalTransition(CapTransition(ops + 1), TRUE, TRUE, TRUE)
    /\ ops' = ops + 1
    /\ UNCHANGED <<tursoVars, storage, runs, late, lifecycle, countVars, procVars, relVars>>

InitTransitionCap ==
    /\ \E reviews \in InitReviews :
         /\ fileExists = (reviews # <<>>)
         /\ fileDoc = [EmptyDoc EXCEPT ![CapRepo] =
                         [reviews |-> reviews, transitions |-> <<>>]]
    /\ backupExists = FALSE /\ backupDoc = EmptyDoc
    /\ tursoClient = FALSE /\ tursoSynced = FALSE
    /\ tursoRows = <<>> /\ nextId = 1
    /\ storage = "file"
    /\ last = NoOp
    /\ ops = 0 /\ runs = 0 /\ late = 0
    /\ tursoTransitions = <<>>
    /\ prisma = EmptyPrisma
    /\ lifecycle = "initialized"
    /\ InitCount0 /\ InitProc0

NextTransitionCap == TransitionCapSave

SpecTransitionCap == InitTransitionCap /\ [][NextTransitionCap]_vars

---------------------------------------------------------------------------
(* review-committer: commitReviewData *)

MaxCommitCalls == 3   \* commitReviewData calls per behaviour

\* exec.exec of @actions/exec: the promise is rejected when the tool cannot
\* be started, and when it exits non-zero unless ignoreReturnCode is set;
\* otherwise it resolves with the exit code
exec(started, exitCode, ignoreReturnCode) ==
    IF ~started THEN "rejected"
    ELSE IF exitCode # 0 /\ ~ignoreReturnCode THEN "rejected"
    ELSE "resolved"

\* git add of reviews/*.md and of review-data.json, each inside its own
\* try/catch: what was changed in the work tree moves to the index
Stage(g, addOk) ==
    IF addOk /\ (g.summaries \/ g.data)
    THEN [g EXCEPT !.staged = TRUE, !.summaries = FALSE, !.data = FALSE]
    ELSE g

\* git diff --cached --quiet exits 1 when the index differs from HEAD
DiffCachedQuiet(g) == IF g.staged THEN 1 ELSE 0

\* git commit exits 1 when nothing is staged
GitCommit(g) == IF g.staged THEN 0 ELSE 1

\* Returns the repository after the call, the boolean the call returns and
\* whether git commit ran to completion.
commitReviewData(g, skipIfNoChanges, configOk, addOk, diffStarted, commitStarted, pushOk) ==
    IF exec(configOk, 0, FALSE) = "rejected"
    THEN [git |-> g, result |-> FALSE, committed |-> FALSE]
    ELSE IF ~g.contributorDir
    THEN [git |-> g, result |-> FALSE, committed |-> FALSE]
    ELSE LET g1 == Stage(g, addOk)
             \* .then(() => hasChanges = false, () => hasChanges = true)
             hasChanges == exec(diffStarted, DiffCachedQuiet(g1), TRUE) = "rejected"
         IN  IF ~hasChanges /\ skipIfNoChanges
             THEN [git |-> g1, result |-> FALSE, committed |-> FALSE]
             ELSE IF exec(commitStarted, GitCommit(g1), FALSE) = "rejected"
             THEN [git |-> g1, result |-> FALSE, committed |-> FALSE]
             ELSE LET g2 == [g1 EXCEPT !.staged = FALSE, !.commits = @ + 1]
                      g3 == IF pushOk THEN [g2 EXCEPT !.pushed = g2.commits] ELSE g2
                  IN  [git |-> g3, result |-> TRUE, committed |-> TRUE]

CommitReviewData ==
    /\ ops < MaxCommitCalls
    /\ \E skipIfNoChanges \in BOOLEAN, configOk \in BOOLEAN, addOk \in BOOLEAN,
          diffStarted \in BOOLEAN, commitStarted \in BOOLEAN, pushOk \in BOOLEAN :
         \* a git that cannot be started for git config cannot be started later
         /\ ~configOk => ~addOk /\ ~diffStarted /\ ~commitStarted /\ ~pushOk
         /\ LET r == commitReviewData(git, skipIfNoChanges, configOk, addOk,
                                      diffStarted, commitStarted, pushOk)
                staged == Stage(git, addOk)
            IN  /\ git' = r.git
                /\ last' = [op |-> "commitReviewData",
                            skipIfNoChanges |-> skipIfNoChanges,
                            exists |-> git.contributorDir,
                            gitOk |-> configOk /\ addOk /\ diffStarted /\ commitStarted,
                            diffExit |-> DiffCachedQuiet(staged),
                            commitsBefore |-> git.commits,
                            result |-> r.result, committed |-> r.committed]
    /\ ops' = ops + 1
    /\ UNCHANGED <<fileVars, tursoVars, storage, runs, late, lifecycle, countVars,
                   relVars, calls, fileTorn, metrics, env>>

\* a review run writes review-data.json (and the summary of the pull request)
\* below .contributor
WriteReviewData ==
    /\ ops < MaxCommitCalls
    /\ ~git.data
    /\ \E summary \in BOOLEAN :
         git' = [git EXCEPT !.contributorDir = TRUE, !.data = TRUE,
                            !.summaries = @ \/ summary]
    /\ UNCHANGED <<fileVars, tursoVars, storage, last, ops, runs, late, lifecycle,
                   countVars, relVars, calls, fileTorn, metrics, env>>

InitCommit ==
    /\ fileExists = FALSE /\ fileDoc = EmptyDoc
    /\ InitCommon /\ InitCount0
    /\ \E dir \in BOOLEAN : git = [NoGit EXCEPT !.contributorDir = dir]
    /\ calls = <<>> /\ fileTorn = FALSE /\ metrics = <<>> /\ env = NoEnv

NextCommit == CommitReviewData \/ WriteReviewData

SpecCommit == InitCommit /\ [][NextCommit]_vars

---------------------------------------------------------------------------
(* FileStorage: calls that overlap at their awaits *)

\* the two callers of saveReview (two overlapping calls in one process, or
\* two runs of the action on one checkout)
Callers == {1, 2}

\* sizes of the reviews array of CapRepo before the calls
InitSizes == {0, maxReviews - 1, maxReviews}

CallSnapshot(ts) == Snapshot(ts, 1, "MERGE", FALSE, Undefined)

\* the snapshot caller p saves: newer than everything persisted
CallerSnapshot(p) == CallSnapshot(maxReviews + p)

IdleCall == [pc |-> "idle", repository |-> CapRepo, data |-> EmptyData,
             doc |-> EmptyDoc, loadedAt |-> 0, readAt |-> 0, wroteAt |-> 0]

\* saveReview up to its first await inside saveData: loadData, push, trim
CallLoad(p) ==
    /\ calls[p].pc = "idle"
    /\ \E repository \in Repos :
         LET data == loadData(repository, ~fileTorn)
             kept == FileTrim(Append(data.reviews, CallerSnapshot(p)))
         IN  calls' = [calls EXCEPT ![p] =
                         [@ EXCEPT !.pc = "loaded", !.repository = repository,
                                   !.data = [data EXCEPT !.reviews = kept],
                                   !.loadedAt = ops + 1]]
    /\ ops' = ops + 1
    /\ UNCHANGED <<fileVars, tursoVars, storage, last, runs, late, lifecycle, countVars,
                   relVars, git, fileTorn, metrics, env>>

\* saveData: mkdir and readFile of the whole document; the document to write
\* is built from what was read
CallRead(p) ==
    /\ calls[p].pc = "loaded"
    /\ calls' = [calls EXCEPT ![p] =
                   [@ EXCEPT !.pc = "read",
                             !.doc = saveData(calls[p].repository, calls[p].data, ~fileTorn),
                             !.readAt = ops + 1]]
    /\ ops' = ops + 1
    /\ UNCHANGED <<fileVars, tursoVars, storage, last, runs, late, lifecycle, countVars,
                   relVars, git, fileTorn, metrics, env>>

\* saveData: writeFile; saveReview returns
CallWrite(p) ==
    /\ calls[p].pc = "read"
    /\ fileExists' = TRUE
    /\ fileDoc' = calls[p].doc
    /\ calls' = [calls EXCEPT ![p] = [@ EXCEPT !.pc = "done", !.wroteAt = ops + 1]]
    /\ last' = [op |-> "saveReview", backend |-> "file",
                repository |-> calls[p].repository,
                snapshot |-> CallerSnapshot(p), ok |-> TRUE]
    /\ ops' = ops + 1
    /\ UNCHANGED <<backupExists, backupDoc, tursoVars, storage, runs, late, lifecycle,
                   countVars, relVars, git, fileTorn, metrics, env>>

CallStep == \E p \in Callers : CallLoad(p) \/ CallRead(p) \/ CallWrite(p)

\* the number of snapshots a read operation returns or reports
Held(op, repository) ==
    CASE op = "getReviewHistory" ->
           Len(FileStorage_getReviewHistory(repository, 1, ~fileTorn))
      [] op = "getAllReviews" ->
           Len(FileStorage_getAllReviews(repository, NoLimit, ~fileTorn))
      [] op = "getStats" -> FileStorage_getStats(repository, ~fileTorn).totalReviews

\* a read between two steps of the calls
CallerRead ==
    /\ \E op \in {"getReviewHistory", "getAllReviews", "getStats"}, repository \in Repos :
         last' = [op |-> op, backend |-> "file", repository |-> repository,
                  held |-> Held(op, repository), ok |-> TRUE]
    /\ UNCHANGED <<fileVars, tursoVars, storage, ops, runs, late, lifecycle, countVars,
                   relVars, procVars>>

InitInterleave ==
    /\ \E n \in InitSizes :
         /\ fileExists = (n > 0)
         /\ fileDoc = [EmptyDoc EXCEPT ![CapRepo] =
                         [reviews |-> [i \in 1..n |-> CallSnapshot(i)],
                          transitions |-> <<>>]]
    /\ backupExists = FALSE /\ backupDoc = EmptyDoc
    /\ tursoClient = FALSE /\ tursoSynced = FALSE
    /\ tursoRows = <<>> /\ nextId = 1
    /\ storage = "file"
    /\ last = NoOp
    /\ ops = 0 /\ runs = 0 /\ late = 0
    /\ tursoTransitions = <<>>
    /\ prisma = EmptyPrisma
    /\ lifecycle = "initialized"
    /\ InitCount0
    /\ git = NoGit /\ fileTorn = FALSE /\ metrics = <<>> /\ env = NoEnv
    /\ calls = [p \in Callers |-> IdleCall]

NextInterleave == CallStep \/ CallerRead

SpecInterleave == InitInterleave /\ [][NextInterleave]_vars

---------------------------------------------------------------------------
(* FileStorage: termination of the process during a write *)

MaxCrashOps == 2      \* write operations per behaviour
CrashKeep == 1        \* keepLast of the cleanup calls

WriteOps == {"saveReview", "saveApprovalTransition", "cleanup"}

\* The document an operation hands to fs.writeFile, and whether it reaches
\* saveData at all (cleanup saves only when it removes something).
WrittenDoc(op, repository, k) ==
    LET data == loadData(repository, ~fileTorn)
    IN  CASE op = "saveReview" ->
               [saves |-> TRUE,
                doc |-> saveData(repository,
                          [data EXCEPT !.reviews = FileTrim(Append(data.reviews, CallSnapshot(k)))],
                          ~fileTorn)]
          [] op = "saveApprovalTransition" ->
               [saves |-> TRUE,
                doc |-> saveData(repository,
                          [data EXCEPT !.transitions =
                              TransitionTrim(Append(data.transitions,
                                  [CapTransition(k) EXCEPT !.repository = repository]))],
                          ~fileTorn)]
          [] op = "cleanup" ->
               [saves |-> Len(data.reviews) > CrashKeep,
                doc |-> saveData(repository,
                          [data EXCEPT !.reviews = SliceLast(data.reviews, CrashKeep)],
                          ~fileTorn)]

\* fs.writeFile(path, text): the file is opened with O_TRUNC and the text is
\* written in place. A process that is terminated leaves the file as it was
\* ("unopened"), cut to a prefix of the text, the empty prefix included
\* ("torn"), or complete ("written").
WriteProgress == {"unopened", "torn", "written"}

writeFile(doc, progress) ==
    CASE progress = "unopened" -> [exists |-> fileExists, doc |-> fileDoc, torn |-> fileTorn]
      [] progress = "torn" -> [exists |-> TRUE, doc |-> EmptyDoc, torn |-> TRUE]
      [] progress = "written" -> [exists |-> TRUE, doc |-> doc, torn |-> FALSE]

\* a write operation of the File backend, run to its end or terminated
CrashWrite ==
    /\ ops < MaxCrashOps
    /\ \E op \in WriteOps, repository \in Repos, terminated \in BOOLEAN,
          progress \in WriteProgress :
         /\ ~terminated => progress = "written"
         /\ LET w == WrittenDoc(op, repository, ops + 3)
                f == IF w.saves THEN writeFile(w.doc, progress)
                     ELSE [exists |-> fileExists, doc |-> fileDoc, torn |-> fileTorn]
            IN  /\ fileExists' = f.exists
                /\ fileDoc' = f.doc
                /\ fileTorn' = f.torn
                /\ last' = [op |-> op, backend |-> "file", repository |-> repository,
                            terminated |-> terminated, saves |-> w.saves,
                            before |-> fileDoc, intended |-> w.doc,
                            tornBefore |-> fileTorn]
    /\ ops' = ops + 1
    /\ UNCHANGED <<backupExists, backupDoc, tursoVars, storage, runs, late, lifecycle,
                   countVars, relVars, git, calls, metrics, env>>

\* the next run of the action reads the history of a repository
CrashRead ==
    /\ \E repository \in Repos :
         last' = [op |-> "getAllReviews", backend |-> "file", repository |-> repository,
                  result |-> FileStorage_getAllReviews(repository, NoLimit, ~fileTorn)]
    /\ UNCHANGED <<fileVars, tursoVars, storage, ops, runs, late, lifecycle, countVars,
                   relVars, procVars>>

InitCrash ==
    /\ \E reviews \in InitReviews :
         /\ fileExists = TRUE
         /\ fileDoc = [r \in Repos |->
                         IF r = CapRepo THEN [reviews |-> reviews, transitions |-> <<>>]
                         ELSE [reviews |-> <<CallSnapshot(1)>>, transitions |-> <<>>]]
    /\ backupExists = FALSE /\ backupDoc = EmptyDoc
    /\ tursoClient = FALSE /\ tursoSynced = FALSE
    /\ tursoRows = <<>> /\ nextId = 1
    /\ storage = "file"
    /\ last = NoOp
    /\ ops = 0 /\ runs = 0 /\ late = 0
    /\ tursoTransitions = <<>>
    /\ prisma = EmptyPrisma
    /\ lifecycle = "initialized"
    /\ InitCount0 /\ InitProc0

NextCrash == CrashWrite \/ CrashRead

SpecCrash == InitCrash /\ [][NextCrash]_vars

---------------------------------------------------------------------------
(* FileStorage: what a save leaves alone *)

MaxFrameOps == 2      \* saves per behaviour

FrameTransition(repository, k) == [CapTransition(k) EXCEPT !.repository = repository]

\* the data of a repository before the saves
InitData(repository) ==
    { [reviews |-> reviews, transitions |-> transitions] :
        reviews \in InitReviews,
        transitions \in { <<>>, <<FrameTransition(repository, 1)>> } }

FrameSaveReview ==
    /\ ops < MaxFrameOps
    /\ \E repository \in Repos, loadOk \in BOOLEAN, readOk \in BOOLEAN, writeOk \in BOOLEAN :
         /\ FileFaultsMatter(loadOk, readOk, writeOk)
         /\ FileStorage_saveReview(repository, CallSnapshot(ops + 3), loadOk, readOk, writeOk)
    /\ ops' = ops + 1
    /\ UNCHANGED <<tursoVars, storage, runs, late, lifecycle, countVars, procVars, relVars>>

FrameSaveTransition ==
    /\ ops < MaxFrameOps
    /\ \E repository \in Repos, loadOk \in BOOLEAN, readOk \in BOOLEAN, writeOk \in BOOLEAN :
         /\ FileFaultsMatter(loadOk, readOk, writeOk)
         /\ FileStorage_saveApprovalTransition(FrameTransition(repository, ops + 2),
                                               loadOk, readOk, writeOk)
    /\ ops' = ops + 1
    /\ UNCHANGED <<tursoVars, storage, runs, late, lifecycle, countVars, procVars, relVars>>

InitFrame ==
    /\ fileExists = TRUE
    /\ \E a \in InitData("A"), b \in InitData("B") :
         fileDoc = [r \in Repos |-> IF r = "A" THEN a ELSE b]
    /\ backupExists = FALSE /\ backupDoc = EmptyDoc
    /\ tursoClient = FALSE /\ tursoSynced = FALSE
    /\ tursoRows = <<>> /\ nextId = 1
    /\ storage = "file"
    /\ last = NoOp
    /\ ops = 0 /\ runs = 0 /\ late = 0
    /\ tursoTransitions = <<>>
    /\ prisma = EmptyPrisma
    /\ lifecycle = "initialized"
    /\ InitCount0 /\ InitProc0

NextFrame == FrameSaveReview \/ FrameSaveTransition

SpecFrame == InitFrame /\ [][NextFrame]_vars

---------------------------------------------------------------------------
(* turso-setup: the mode validateTursoConfig selects *)

MaxConfigCalls == 2   \* createStorage calls per behaviour

\* values of TURSO_DATABASE_URL: absent, empty, with and without the
\* libsql:// prefix
ConfigUrls == Urls \cup {"", "libsql://", "https://db.turso.io"}

\* the factory initializeTursoStorage calls for a mode, and the one
\* createStorage calls itself when there is no configuration
TursoMode(config) ==
    CASE config = Null -> "local"
      [] config = "local" -> "local"
      [] config = "synced" -> "synced"
      [] config = "remote" -> "remote"

ConfigCreateStorage ==
    /\ runs < MaxConfigCalls
    /\ \E enable \in BOOLEAN, dirAccessible \in BOOLEAN,
          initOk \in BOOLEAN, healthOk \in BOOLEAN, fileInitOk \in BOOLEAN :
       /\ Reached(enable, dirAccessible, validateTursoConfig(env.url, env.token),
                  initOk, healthOk, fileInitOk)
       /\ \E m \in MigrationInputs(
                 createStorage(enable, dirAccessible,
                               validateTursoConfig(env.url, env.token),
                               initOk, healthOk, fileInitOk, FALSE).result = "turso",
                 validateTursoConfig(env.url, env.token) = "synced") :
            CreateStorageWith(enable, dirAccessible, env.url, env.token, initOk, healthOk,
                              fileInitOk, m)
    /\ runs' = runs + 1
    /\ lifecycle' = IF storage' = "none" THEN "initializeFailed" ELSE "initialized"
    /\ UNCHANGED <<ops, late, countVars, procVars, relVars>>

InitConfig ==
    /\ fileExists = FALSE /\ fileDoc = EmptyDoc
    /\ InitCommon /\ InitCount0
    /\ git = NoGit /\ calls = <<>> /\ fileTorn = FALSE /\ metrics = <<>>
    /\ env \in [url : ConfigUrls, token : BOOLEAN]

NextConfig == ConfigCreateStorage

SpecConfig == InitConfig /\ [][NextConfig]_vars

---------------------------------------------------------------------------
(* FileStorage of .continue/review-metrics.json (legacy store) *)

MaxMetricOps == 3     \* recordReviewMetrics and updateReviewEffectiveness calls

\* "Keep only last 100 reviews"
metricsCap == 100

\* the snapshots recorded: reviews of one pull request or of two
MetricSnapshots ==
    { [repository |-> "A", prNumber |-> pr, reviewState |-> st] :
        pr \in {1, 2}, st \in {"MERGE", "DONT_MERGE"} }

\* ReviewQualityTracking.effectiveness
Effects ==
    { [implementedSuggestions |-> n, totalSuggestions |-> 2, followUpRequired |-> f] :
        n \in {0, 2}, f \in {FALSE} }

\* `${repository.replace('/', '-')}-${prNumber}-${timestamp}`: the instant
\* of the call in milliseconds, colons and dots removed
FileStorage_generateReviewId(snapshot, now) ==
    <<snapshot.repository, snapshot.prNumber, now>>

\* loadMetrics: a failed read or parse yields []
loadMetrics(readOk) == IF readOk THEN metrics ELSE <<>>

\* push, splice to the last 100, writeFile; the id is returned also when
\* the write failed
FileStorage_recordReviewMetrics(snapshot, now, readOk, writeOk) ==
    LET reviewId == FileStorage_generateReviewId(snapshot, now)
        pushed == Append(loadMetrics(readOk),
                         [reviewId |-> reviewId, snapshot |-> snapshot,
                          effectiveness |-> <<>>])
        kept == IF Len(pushed) > metricsCap THEN SliceLast(pushed, metricsCap) ELSE pushed
    IN  [metrics |-> IF writeOk THEN kept ELSE metrics, reviewId |-> reviewId]

\* metrics.find: the first record with the id
FindReview(ms, reviewId) ==
    IF \E i \in 1..Len(ms) : ms[i].reviewId = reviewId
    THEN <<CHOOSE i \in 1..Len(ms) :
             /\ ms[i].reviewId = reviewId
             /\ \A j \in 1..(i - 1) : ms[j].reviewId # reviewId>>
    ELSE <<>>

\* the file after updateReviewEffectiveness; a failure is logged only
FileStorage_updateReviewEffectiveness(reviewId, effectiveness, readOk, writeOk) ==
    LET loaded == loadMetrics(readOk)
        review == FindReview(loaded, reviewId)
    IN  IF review # <<>> /\ writeOk
        THEN [loaded EXCEPT ![review[1]].effectiveness = <<effectiveness>>]
        ELSE metrics

\* the clock stands still or advances between two calls
LegacyRecord ==
    /\ ops < MaxMetricOps
    /\ \E snapshot \in MetricSnapshots, now \in {last.now, last.now + 1},
          readOk \in BOOLEAN, writeOk \in BOOLEAN :
         /\ (metrics = <<>> \/ ~writeOk) => readOk
         /\ LET r == FileStorage_recordReviewMetrics(snapshot, now, readOk, writeOk)
            IN  /\ metrics' = r.metrics
                /\ last' = [op |-> "recordReviewMetrics", now |-> now,
                            reviewId |-> r.reviewId, ok |-> readOk /\ writeOk]
    /\ ops' = ops + 1
    /\ UNCHANGED <<fileVars, tursoVars, storage, runs, late, lifecycle, countVars,
                   relVars, git, calls, fileTorn, env>>

LegacyUpdate ==
    /\ ops < MaxMetricOps
    /\ \E snapshot \in MetricSnapshots, at \in 0..last.now, effectiveness \in Effects,
          readOk \in BOOLEAN, writeOk \in BOOLEAN :
         /\ (metrics = <<>> \/ ~writeOk) => readOk
         /\ metrics' = FileStorage_updateReviewEffectiveness(
                           FileStorage_generateReviewId(snapshot, at), effectiveness,
                           readOk, writeOk)
         /\ last' = [op |-> "updateReviewEffectiveness", now |-> last.now,
                     reviewId |-> FileStorage_generateReviewId(snapshot, at),
                     effectiveness |-> effectiveness, ok |-> readOk /\ writeOk]
    /\ ops' = ops + 1
    /\ UNCHANGED <<fileVars, tursoVars, storage, runs, late, lifecycle, countVars,
                   relVars, git, calls, fileTorn, env>>

InitLegacy ==
    /\ fileExists = FALSE /\ fileDoc = EmptyDoc
    /\ backupExists = FALSE /\ backupDoc = EmptyDoc
    /\ tursoClient = FALSE /\ tursoSynced = FALSE
    /\ tursoRows = <<>> /\ nextId = 1
    /\ storage = "file"
    /\ last = [op |-> "none", now |-> 1]
    /\ ops = 0 /\ runs = 0 /\ late = 0
    /\ tursoTransitions = <<>>
    /\ prisma = EmptyPrisma
    /\ lifecycle = "constructed"
    /\ InitCount0 /\ InitProc0

NextLegacy == LegacyRecord \/ LegacyUpdate

SpecLegacy == InitLegacy /\ [][NextLegacy]_vars

---------------------------------------------------------------------------
(* Properties *)

\* the snapshot h is the saved snapshot s, title and review state unchanged
SameReview(h, s) ==
    /\ h.timestamp = s.timestamp /\ h.prNumber = s.prNumber
    /\ h.prTitle = s.prTitle /\ h.reviewState = s.reviewState

\* a getReviewHistory that read its store directly after a successful
\* saveReview, for the repository and PR of the saved snapshot
ReadAfterSave ==
    /\ last.op = "getReviewHistory" /\ last.readOk
    /\ last.after.op = "saveReview" /\ last.after.ok
    /\ last.after.repository = last.repository
    /\ last.after.snapshot.prNumber = last.prNumber

\* C1: on both backends, the history read after a successful saveReview
\* contains the saved snapshot with its PR title and review state.
SaveThenHistoryRoundTrips ==
    ReadAfterSave =>
        \E i \in 1..Len(last.result) : SameReview(last.result[i], last.after.snapshot)

SaveThenHistoryRoundTrips_witness ==
    /\ ReadAfterSave /\ last.backend = "turso" /\ Len(last.result) = 2
    /\ SameReview(last.result[1], last.after.snapshot)

\* the snapshots persisted for a PR of a repository by the backend in use
PersistedFor(backend, repository, prNumber) ==
    IF backend = "file"
    THEN { r \in Range(fileDoc[repository].reviews) : r.prNumber = prNumber }
    ELSE Range(TursoSelect(tursoRows, repository, prNumber))

\* C2: every getReviewHistory result ascends by timestamp, and is empty when
\* the PR has no snapshot.
HistoryAscendingByTimestamp ==
    last.op = "getReviewHistory" =>
        /\ IsAscending(last.result)
        /\ PersistedFor(last.backend, last.repository, last.prNumber) = {}
              => last.result = <<>>

\* C3: the File document never holds more than maxReviews snapshots of a
\* repository, and holds exactly maxReviews once more than maxReviews were
\* saved into the empty repository.
RetentionCapHolds ==
    /\ \A r \in Repos : Len(fileDoc[r].reviews) <= maxReviews
    /\ ops > maxReviews => Len(fileDoc[CapRepo].reviews) = maxReviews

RetentionCapHolds_witness ==
    ops = maxReviews + 1 /\ Len(fileDoc[CapRepo].reviews) = maxReviews

\* the n elements of S with the greatest timestamps
TopByTimestamp(S, n) ==
    { x \in S : Cardinality({ y \in S : y.timestamp > x.timestamp }) < n }

\* C4: a saveReview that evicts keeps the maxReviews snapshots with the
\* greatest timestamps among the stored ones and the new one.
EvictionKeepsGreatestTimestamps ==
    [][ (ops' = ops + 1 /\ Len(fileDoc[CapRepo].reviews) = maxReviews) =>
           Range(fileDoc'[CapRepo].reviews) =
              TopByTimestamp(Range(fileDoc[CapRepo].reviews) \cup {last'.snapshot},
                             maxReviews) ]_vars

IsPrefix(p, q) == Len(p) <= Len(q) /\ SubSeq(q, 1, Len(p)) = p

\* C5: a saveReview step keeps every persisted snapshot (below the cap
\* nothing is evicted), also when a read of the document fails meanwhile.
SaveReviewOnlyAppends ==
    [][ (ops' = ops + 1 /\ last'.op = "saveReview") =>
           /\ \A r \in Repos :
                 Len(fileDoc[r].reviews) < maxReviews =>
                     IsPrefix(fileDoc[r].reviews, fileDoc'[r].reviews)
           /\ IsPrefix(tursoRows, tursoRows') ]_vars

\* C6: no two persisted snapshots share (repository, PR number, timestamp).
TripleIdentifiesSnapshot ==
    /\ \A r \in Repos : \A i, j \in 1..Len(fileDoc[r].reviews) :
          (i # j) => ~(/\ fileDoc[r].reviews[i].prNumber = fileDoc[r].reviews[j].prNumber
                       /\ fileDoc[r].reviews[i].timestamp = fileDoc[r].reviews[j].timestamp)
    /\ \A i, j \in 1..Len(tursoRows) :
          (i # j) => ~(/\ tursoRows[i].repository = tursoRows[j].repository
                       /\ tursoRows[i].prNumber = tursoRows[j].prNumber
                       /\ tursoRows[i].timestamp = tursoRows[j].timestamp)

\* adjacent pairs of which exactly one snapshot is approved (MERGE)
BoundaryCrossings(snaps) ==
    { i \in 1..(Len(snaps) - 1) :
        (snaps[i].reviewState = "MERGE") # (snaps[i + 1].reviewState = "MERGE") }

StatesOf(snaps) == [i \in 1..Len(snaps) |-> snaps[i].reviewState]

\* C7: countApprovalChanges is the number of adjacent pairs with exactly one
\* MERGE: 0 for fewer than two snapshots, 2 for
\* [MERGE, DONT_MERGE, MERGE_AFTER_CHANGES, MERGE].
ApprovalChangesCountCrossings ==
    pc = "done" =>
        /\ changes = Cardinality(BoundaryCrossings(snapshots))
        /\ Len(snapshots) < 2 => changes = 0
        /\ StatesOf(snapshots) = <<"DONT_MERGE", "MERGE_AFTER_CHANGES">> => changes = 0
        /\ StatesOf(snapshots) = <<"MERGE", "DONT_MERGE", "MERGE_AFTER_CHANGES", "MERGE">>
              => changes = 2

ApprovalChangesCountCrossings_witness ==
    /\ pc = "done" /\ changes = 2
    /\ StatesOf(snapshots) = <<"MERGE", "DONT_MERGE", "MERGE_AFTER_CHANGES", "MERGE">>

\* C8: createStorage never raises and always returns a backend.
CreateStorageNeverRaises ==
    last.op = "createStorage" => (~last.raised /\ last.result \in {"file", "turso"})

\* the Turso backend was requested, reachable and came up
TursoCameUp ==
    /\ last.enableTursoStorage /\ last.dirAccessible /\ last.initOk
    /\ last.config # Null => last.healthOk

Occurrences(seq, e) == Cardinality({ i \in 1..Len(seq) : seq[i] = e })

Before(seq, a, b) ==
    \A i, j \in 1..Len(seq) : (seq[i] = a /\ seq[j] = b) => i < j

MigrationOnlyWithSqlBackend ==
    /\ [](last.op = "createStorage" =>
            IF last.result = "turso"
            THEN /\ Occurrences(last.trace, "migrate") = 1
                 /\ Before(last.trace, "tursoInitOk", "migrate")
                 /\ Before(last.trace, "migrate", "return")
                 /\ Occurrences(last.trace, "tursoInitOk") = 1
            ELSE /\ Occurrences(last.trace, "migrate") = 0
                 /\ Occurrences(last.trace, "rename") = 0)
    /\ [][ (runs' = runs + 1 /\ last'.result # "turso") => UNCHANGED fileVars ]_vars

MigrationOnlyWithSqlBackend_witness ==
    /\ last.op = "createStorage" /\ last.result = "turso"
    /\ Occurrences(last.trace, "rename") = 1
    /\ backupExists /\ ~fileExists /\ Len(tursoRows) >= 2

\* the number of snapshots a File document holds, over all repositories
DocSize(doc) == Len(MigrationItems(doc, <<"A", "B">>))

\* C11: the rename to .backup follows a saveReview attempt for every snapshot
\* of the document, and after a migration that found a File document the
\* original path is empty and the .backup path holds the document's content.
MigrationLeavesOnlyBackup ==
    (last.op = "createStorage" /\ last.found) =>
        /\ last.renamed => last.attempted = DocSize(last.before)
        /\ ~fileExists
        /\ backupExists /\ backupDoc = last.before

\* a listing without limit that directly follows a migration into an empty
\* table in which the document was read and every saveReview succeeded
ListedAfterCleanMigration ==
    /\ last.op = "getAllReviews" /\ last.readOk /\ last.limit = NoLimit
    /\ last.after.op = "createStorage" /\ last.after.renameTried
    /\ last.after.failed = 0 /\ last.after.rowsBefore = 0

\* C12: after a migration in which every saveReview succeeded, getAllReviews
\* of each repository of the document returns as many snapshots as the
\* document held for it, and each of them as often as the document held it.
MigratedReviewsListedPerRepository ==
    ListedAfterCleanMigration =>
        LET held == last.after.before[last.repository].reviews
        IN  /\ Len(last.result) = Len(held)
            /\ \A k \in 1..Len(held) :
                  Cardinality({ i \in 1..Len(last.result) : SameReview(last.result[i], held[k]) })
                  = Cardinality({ j \in 1..Len(held) : SameReview(held[j], held[k]) })

MigratedReviewsListedPerRepository_witness ==
    /\ ListedAfterCleanMigration
    /\ last.repository = "A" /\ Len(last.result) = 2
    /\ Len(last.after.before["B"].reviews) = 1

\* C13: when saveReview fails for some snapshots of the document, the call
\* does not raise, every snapshot is attempted, the migrated count is the
\* number of saveReview calls that succeeded, and the rename to .backup is
\* still carried out: the document is at the .backup path unless the rename
\* itself fails.
MigrationIsBestEffort ==
    (last.op = "createStorage" /\ last.renameTried /\ last.failed > 0) =>
        /\ ~last.raised /\ last.result = "turso"
        /\ last.attempted = DocSize(last.before)
        /\ last.migratedCount = last.attempted - last.failed
        /\ Len(tursoRows) >= last.rowsBefore + last.migratedCount
        /\ last.renameOk =>
              /\ Occurrences(last.trace, "rename") = 1
              /\ ~fileExists /\ backupExists /\ backupDoc = last.before

MigrationIsBestEffort_witness ==
    /\ last.op = "createStorage" /\ last.renameTried /\ last.failed = 1
    /\ last.attempted = 3 /\ last.migratedCount = 2
    /\ Len(tursoRows) = 2
    /\ backupExists /\ ~fileExists

\* the File document the first run found: still in place, or at .backup
OriginalDoc == IF fileExists THEN fileDoc ELSE backupDoc

\* C14: over successive createStorage runs with Turso enabled, each snapshot
\* of the original File document is inserted into the table at most once.
MigrationRunsOnce ==
    \A r \in Repos : \A k \in 1..Len(OriginalDoc[r].reviews) :
        Cardinality({ i \in 1..Len(tursoRows) :
                        /\ tursoRows[i].repository = r
                        /\ SameReview(tursoRows[i], OriginalDoc[r].reviews[k]) }) <= 1

\* the rows of the last runInTransaction call are in the tables
ReviewCommitted ==
    \E i \in 1..Len(tursoRows) :
        /\ tursoRows[i].repository = last.repository
        /\ SameReview(tursoRows[i], last.snapshot)

TransitionCommitted ==
    \E i \in 1..Len(tursoTransitions) : tursoTransitions[i] = last.transition

\* the statements of the call up to and including the first that failed
StatementFailed ==
    \/ ~last.faults.beginOk \/ ~last.faults.insertOk
    \/ ~last.faults.transitionOk \/ ~last.faults.commitOk

\* C15: after runInTransaction(saveReview; saveApprovalTransition) either
\* both the snapshot row and the transition row are committed or neither,
\* and a failed statement (BEGIN aside) issues ROLLBACK and raises.
TransactionIsAtomic ==
    last.op = "runInTransaction" =>
        /\ ReviewCommitted <=> TransitionCommitted
        /\ StatementFailed => last.raised
        /\ (StatementFailed /\ last.faults.beginOk) =>
              Occurrences(last.trace, "ROLLBACK") = 1

\* C16: a synced runInTransaction whose statements all succeed syncs exactly
\* once, after COMMIT, and not between BEGIN and COMMIT.
TransactionSyncsOnceAfterCommit ==
    (last.op = "runInTransaction" /\ last.synced /\ ~last.raised) =>
        /\ Occurrences(last.trace, "sync") = 1
        /\ Before(last.trace, "COMMIT", "sync")

\* C17: in synced mode a call in which every INSERT, BEGIN and COMMIT
\* succeeded and at most a sync failed does not raise, and its rows are
\* persisted.
SyncFailureIsNotRaised ==
    (last.op = "runInTransaction" /\ last.synced /\ ~StatementFailed) =>
        /\ ~last.raised
        /\ ReviewCommitted /\ TransitionCommitted

\* the pairs of consecutively saved snapshots of a PR whose states differ
DifferingPairs(rows, prNumber) ==
    LET saved == PrismaSelect(rows, PrismaRepo, prNumber)
    IN  { i \in 1..(Len(saved) - 1) : saved[i].reviewState # saved[i + 1].reviewState }

TransitionsOf(transitions, prNumber) ==
    SelectSeq(transitions, LAMBDA t : t.repository = PrismaRepo /\ t.prNumber = prNumber)

\* C18: a recordReviewMetrics call whose statements succeed appends exactly
\* one transition, from the state of the snapshot saved before for the PR to
\* the new state, when the two differ, and none otherwise; the log never
\* holds more transitions of a PR than differing consecutive pairs.
TransitionPerDifferingPair ==
    /\ [](\A pr \in PRs :
            /\ Len(TransitionsOf(prisma.approvalTransition, pr))
                  <= Cardinality(DifferingPairs(prisma.reviewSnapshot, pr))
            /\ \A i \in 1..Len(prisma.approvalTransition) :
                  prisma.approvalTransition[i].fromState # prisma.approvalTransition[i].toState)
    /\ [][ (ops' = ops + 1 /\ last'.op = "recordReviewMetrics" /\ last'.complete) =>
             LET s == last'.snapshot
                 before == PrismaSelect(prisma.reviewSnapshot, s.repository, s.prNumber)
                 added == SubSeq(prisma'.approvalTransition,
                                 Len(prisma.approvalTransition) + 1,
                                 Len(prisma'.approvalTransition))
             IN  /\ IsPrefix(prisma.approvalTransition, prisma'.approvalTransition)
                 /\ IF before # <<>> /\ before[Len(before)].reviewState # s.reviewState
                    THEN /\ Len(added) = 1
                         /\ added[1].fromState = before[Len(before)].reviewState
                         /\ added[1].toState = s.reviewState
                         /\ added[1].prNumber = s.prNumber
                         /\ added[1].repository = s.repository
                    ELSE added = <<>> ]_vars

TransitionPerDifferingPair_witness ==
    /\ Len(prisma.reviewSnapshot) = 3
    /\ prisma.reviewSnapshot[1].prNumber = 1 /\ prisma.reviewSnapshot[1].reviewState = "MERGE"
    /\ prisma.reviewSnapshot[2].prNumber = 2
    /\ prisma.reviewSnapshot[3].prNumber = 1 /\ prisma.reviewSnapshot[3].reviewState = "DONT_MERGE"
    /\ Len(prisma.approvalTransition) = 1
    /\ prisma.approvalTransition[1].fromState = "MERGE"
    /\ prisma.approvalTransition[1].toState = "DONT_MERGE"
    /\ prisma.approvalTransition[1].prNumber = 1

\* the snapshots the backend in use holds for a repository
PersistedOf(backend, repository) ==
    IF backend = "file" THEN fileDoc[repository].reviews
    ELSE SelectSeq(tursoRows, LAMBDA r : r.repository = repository)

Timestamps(seq) == { seq[i].timestamp : i \in 1..Len(seq) }

\* C19: getStats reflects the persisted snapshots of the repository: their
\* number (maxReviews once more than that were saved on the File backend),
\* the share with state MERGE, the least and the greatest timestamp; for a
\* repository without snapshots 0, rate 0 and null timestamps.
StatsReflectPersistedSet ==
    (last.op = "getStats" /\ last.readOk) =>
        LET held == PersistedOf(last.backend, last.repository)
            st == last.result
        IN  /\ st.totalReviews = Len(held)
            /\ st.approvalRate.num * Len(held) = ApprovedCount(held) * st.approvalRate.den
            /\ st.approvalRate.den > 0
            /\ IF held = <<>>
               THEN /\ st.approvalRate.num = 0
                    /\ st.oldestReview = NullTimestamp /\ st.newestReview = NullTimestamp
               ELSE /\ Len(st.oldestReview) = 1 /\ Len(st.newestReview) = 1
                    /\ st.oldestReview[1] \in Timestamps(held)
                    /\ st.newestReview[1] \in Timestamps(held)
                    /\ \A t \in Timestamps(held) :
                          st.oldestReview[1] <= t /\ t <= st.newestReview[1]
            /\ (last.backend = "file" /\ last.repository = CapRepo /\ ops > maxReviews)
                  => st.totalReviews = maxReviews

StatsReflectPersistedSet_witness ==
    /\ last.op = "getStats" /\ last.readOk /\ last.backend = "file"
    /\ last.repository = CapRepo /\ ops = maxReviews + 1
    /\ last.result.totalReviews = maxReviews
    /\ last.result.approvalRate = Rate(25, 100)
    /\ last.result.oldestReview = <<1>>
    /\ last.result.newestReview = <<102>>

IsDescending(seq) ==
    \A i \in 1..(Len(seq) - 1) : seq[i].timestamp >= seq[i + 1].timestamp

Min(a, b) == IF a <= b THEN a ELSE b

\* C20: getAllReviews returns snapshots of the repository in descending
\* timestamp order: all n of them without a limit, and for every limit
\* passed the min(limit, n) most recent ones.
ListingHonoursLimit ==
    (last.op = "getAllReviews" /\ last.readOk) =>
        LET held == PersistedOf(last.backend, last.repository)
        IN  /\ IsDescending(last.result)
            /\ Len(last.result) = IF last.limit = NoLimit THEN Len(held)
                                  ELSE Min(last.limit[1], Len(held))
            /\ \A i \in 1..Len(last.result) :
                  /\ \E j \in 1..Len(held) : SameReview(last.result[i], held[j])
                  /\ Cardinality({ j \in 1..Len(held) :
                                     held[j].timestamp > last.result[i].timestamp }) < i

\* C21: after a cleanup(repository, keepLast) whose file operations
\* succeed, for every keepLast >= 0, the repository holds min(keepLast, n)
\* snapshots, n the number held before, and they are those of the held ones
\* with the greatest timestamps.
CleanupKeepsMostRecent ==
    (last.op = "cleanup" /\ last.ok) =>
        LET held == fileDoc[last.repository].reviews
            n == Len(last.before)
        IN  /\ Len(held) = Min(last.keepLast, n)
            /\ \A i \in 1..Len(held) :
                  /\ \E j \in 1..n : last.before[j] = held[i]
                  /\ Cardinality({ j \in 1..n :
                         last.before[j].timestamp > held[i].timestamp })
                       < last.keepLast

\* C22: healthCheck never raises and returns a boolean in every state of
\* the backend; on the Turso backend it returns false before initialize and
\* after close, and true after a successful initialize while the database
\* answers.
HealthCheckIsTotal ==
    last.op = "healthCheck" =>
        /\ ~last.raised
        /\ Len(last.result) = 1 /\ last.result[1] \in BOOLEAN
        /\ (last.backend = "turso" /\ lifecycle \in {"constructed", "closed"})
              => last.result[1] = FALSE
        /\ (last.backend = "turso" /\ lifecycle = "initialized" /\ last.answers)
              => last.result[1] = TRUE

HealthCheckIsTotal_witness ==
    /\ last.op = "healthCheck" /\ last.backend = "turso" /\ ~last.raised
    /\ lifecycle = "initialized" /\ runs = MaxInits
    /\ last.answers /\ last.result = <<TRUE>>

\* the safe default of a read operation
SafeDefault(op) == IF op = "getStats" THEN EmptyStats ELSE <<>>

\* C23: getReviewHistory, getApprovalTransitions, getStats and getAllReviews
\* never raise, whatever the state of the backend; when the File document
\* cannot be read, a query fails or the Turso backend has no client (not
\* initialized, closed), they return the safe default.
ReadsNeverRaise ==
    last.op \in ReadOps =>
        /\ ~last.outcome.raised
        /\ (~last.readOk \/ (last.backend = "turso" /\ ~tursoClient))
              => last.outcome.result = SafeDefault(last.op)

\* the insights of a cold start: nothing similar, no issues, rates 0, no
\* time to approval, and the baseline message as only recommendation
IsColdStart(insights) ==
    /\ insights.similarPRs = <<>>
    /\ insights.commonIssues = <<>>
    /\ insights.approvalPatterns.authorApprovalRate.num = 0
    /\ insights.approvalPatterns.similarFilesApprovalRate.num = 0
    /\ insights.approvalPatterns.avgTimeToApproval = Null
    /\ Len(insights.recommendations) = 1
    /\ insights.recommendations[1].message = "baseline"

\* C24: when the storage holds no review of the repository,
\* validateAgainstHistory returns the cold-start insights: similarPRs and
\* commonIssues empty, both approval rates 0, avgTimeToApproval null and
\* the baseline message as the one recommendation.
ColdStartReturnsBaseline ==
    (last.op = "validateAgainstHistory"
       /\ PersistedOf(last.backend, last.repository) = <<>>) =>
        /\ ~last.outcome.raised
        /\ IsColdStart(last.outcome.result)

ColdStartReturnsBaseline_witness ==
    /\ last.op = "validateAgainstHistory" /\ last.backend = "turso" /\ tursoClient
    /\ last.readOk /\ tursoRows = <<>>
    /\ ~last.read.raised /\ last.read.result = <<>>
    /\ last.outcome.result.recommendations = <<Recommendation("baseline", 0, <<>>, 0)>>

\* the reviews a validateAgainstHistory call analysed
Analysed == IF last.read.raised THEN <<>> ELSE last.read.result

\* C25: with the random term anywhere in [0, JitterRange), the score of a
\* historical review by the same author is at least 30 whatever its title,
\* the score of one by another author is at most 40 plus the random term
\* and below 50, and every score lies in [0, 80).
ScoreBounds ==
    last.op = "validateAgainstHistory" =>
        \A i \in 1..Len(Analysed) :
            LET q == Score(Analysed[i], last.currentPR, last.jitter[i])
                j == last.jitter[i]
            IN  /\ j >= 0 /\ j < 10 * JitterDen
                /\ q.den > 0
                /\ Analysed[i].prAuthor = last.currentPR.author => q.num >= 30 * q.den
                /\ Analysed[i].prAuthor # last.currentPR.author =>
                      /\ q.num * JitterDen <= (40 * JitterDen + j) * q.den
                      /\ q.num < 50 * q.den
                /\ q.num >= 0 /\ q.num < 80 * q.den

\* another author's review shares both title words and draws the greatest
\* random term: 49.5, shown as 50
ScoreBounds_witness ==
    /\ last.op = "validateAgainstHistory" /\ last.currentPR.author = "alice"
    /\ last.currentPR.title = <<"Login", "cache">>
    /\ Len(Analysed) = 1 /\ Analysed[1].prAuthor = "bob"
    /\ Analysed[1].prTitle = <<"Login", "cache">>
    /\ last.jitter[1] = 10 * JitterDen - 1
    /\ Len(last.outcome.result.similarPRs) = 1
    /\ last.outcome.result.similarPRs[1].similarity = 50

\* the rounded score of the i-th analysed review
Similarity(i) == Round(Score(Analysed[i], last.currentPR, last.jitter[i]))

\* C26: similarPRs holds at most 5 entries in descending similarity order,
\* and exactly the highest-scoring reviews among those with a rounded score
\* of 20 or more: a review is left out only when its score is below 20 or
\* five reviews rank above it.
SimilarPRsAreTopFive ==
    (last.op = "validateAgainstHistory" /\ Len(Analysed) > 0) =>
        LET out == last.outcome.result.similarPRs
            eligible == { i \in 1..Len(Analysed) : Similarity(i) >= 20 }
        IN  /\ Len(out) <= 5
            /\ \A k \in 1..(Len(out) - 1) : out[k].similarity >= out[k + 1].similarity
            /\ Len(out) = Min(5, Cardinality(eligible))
            /\ \A k \in 1..Len(out) :
                  /\ \E i \in eligible :
                        /\ out[k].prNumber = Analysed[i].prNumber
                        /\ out[k].similarity = Similarity(i)
                  /\ Cardinality({ i \in eligible : Similarity(i) > out[k].similarity }) < k

\* the pattern an issue keyword belongs to
PatternOf(issue) == CHOOSE p \in 1..Len(Patterns) : Patterns[p].keyword = issue

\* C27: every entry of commonIssues carries the priority its keyword is
\* tagged with (high: security, vulnerability, memory leak; medium:
\* performance, test, type error, error handling; low: documentation); it is
\* high only when more than half of the occurrences were counted as high.
IssuesCarryDefaultPriority ==
    (last.op = "validateAgainstHistory" /\ Len(Analysed) > 0) =>
        \A k \in 1..Len(last.outcome.result.commonIssues) :
            LET e == last.outcome.result.commonIssues[k]
                tagged == IF e.issue \in {"security", "vulnerability", "memory leak"}
                          THEN "high"
                          ELSE IF e.issue = "documentation" THEN "low" ELSE "medium"
            IN  /\ e.issue = Patterns[PatternOf(e.issue)].keyword
                /\ e.priority = tagged

\* the analysed reviews of the current author, and the approved ones
ByAuthor == { i \in 1..Len(Analysed) : Analysed[i].prAuthor = last.currentPR.author }
Approved == { i \in 1..Len(Analysed) : Analysed[i].reviewState = "MERGE" }

LowApprovalRateIsFlagged ==
    (last.op = "validateAgainstHistory"
       /\ ByAuthor # {} /\ 2 * Cardinality(ByAuthor \cap Approved) < Cardinality(ByAuthor)) =>
        \E k \in 1..Len(last.outcome.result.recommendations) :
            last.outcome.result.recommendations[k].message = "authorScrutiny"

\* C30: validateAgainstHistory never raises; when the storage read raises
\* (a Turso backend that is not initialized) it returns the cold-start
\* insights.
ValidatorNeverRaises ==
    last.op = "validateAgainstHistory" =>
        /\ ~last.outcome.raised
        /\ last.read.raised => IsColdStart(last.outcome.result)

ValidatorNeverRaises_witness ==
    /\ last.op = "validateAgainstHistory" /\ last.backend = "turso" /\ ~tursoClient
    /\ last.read.raised /\ ~last.outcome.raised
    /\ IsColdStart(last.outcome.result)

\* C31: initialize is idempotent on the File and the Turso backend: called
\* on a store that holds data, with the store answering, it succeeds and
\* leaves every persisted snapshot and transition as it was.
InitializeIsIdempotent ==
    [][ last'.op = "initialize" /\ runs' = runs + 1 =>
           /\ last'.answers => last'.ok
           /\ fileExists' = fileExists /\ fileDoc' = fileDoc
           /\ tursoRows' = tursoRows /\ tursoTransitions' = tursoTransitions ]_vars

InitializeIsIdempotent_witness ==
    /\ last.op = "initialize" /\ last.ok /\ runs = MaxInits
    /\ last.backend = "turso" /\ lifecycle = "initialized"
    /\ Len(tursoRows) = 2 /\ Len(tursoTransitions) = 1

\* C32: after any number of saveApprovalTransition calls on the File
\* backend the repository holds at most 500 transitions, and they are the
\* latest saved ones: beyond the cap the earliest-saved are dropped, however
\* many reviews the repository holds.
TransitionCapIsFifo ==
    LET held == fileDoc[CapRepo].transitions
    IN  /\ Len(held) <= 500
        /\ Len(held) = Min(ops, 500)
        /\ \A i \in 1..Len(held) : held[i] = CapTransition(ops - Len(held) + i)
        /\ fileDoc[CapRepo].reviews \in InitReviews

TransitionCapIsFifo_witness ==
    /\ ops = 501 /\ Len(fileDoc[CapRepo].transitions) = 500
    /\ Len(fileDoc[CapRepo].reviews) = 2
    /\ fileDoc[CapRepo].transitions[1].timestamp = 2
    /\ fileDoc[CapRepo].transitions[500].timestamp = 501


\* C33: commitReviewData with default options, every git command able to
\* run: when .contributor exists and git diff --cached --quiet exits non-zero
\* after staging, git commit runs and the call returns true; when nothing is
\* staged the call returns false and no commit is made.
CommitReviewDataCommitsStagedChanges ==
    (/\ last.op = "commitReviewData"
     /\ last.skipIfNoChanges /\ last.gitOk /\ last.exists)
    => IF last.diffExit # 0
       THEN last.result /\ last.committed /\ git.commits = last.commitsBefore + 1
       ELSE ~last.result /\ ~last.committed /\ git.commits = last.commitsBefore


\* C34: in no interleaving of the steps of two FileStorage.saveReview calls
\* with each other and with reads does the persisted document hold more than
\* 100 snapshots for a repository, nor does a read (getReviewHistory,
\* getAllReviews, getStats) return or report more than 100.
EvictionIsAtomicWithInsert ==
    /\ \A r \in Repos : Len(fileDoc[r].reviews) <= maxReviews
    /\ last.op \in {"getReviewHistory", "getAllReviews", "getStats"}
         => last.held <= maxReviews

EvictionIsAtomicWithInsert_witness ==
    /\ \A p \in Callers : calls[p].pc = "done" /\ calls[p].repository = CapRepo
    /\ Len(fileDoc[CapRepo].reviews) = maxReviews
    /\ fileDoc[CapRepo].reviews[1] = CallSnapshot(3)
    /\ last.op = "getAllReviews" /\ last.repository = CapRepo /\ last.held = maxReviews


\* the two callers have returned from saveReview for the same repository
BothSaved(p, q) ==
    /\ p # q
    /\ calls[p].pc = "done" /\ calls[q].pc = "done"
    /\ calls[p].repository = calls[q].repository

Persisted(p) ==
    \E i \in 1..Len(fileDoc[calls[p].repository].reviews) :
        fileDoc[calls[p].repository].reviews[i] = CallerSnapshot(p)

\* C36: two saveReview calls for one repository that both completed: when
\* the second call to write had loaded before the first wrote (the calls
\* interleave), only the snapshot of the second is persisted; when it loaded
\* after the first had written, both snapshots are persisted.
InterleavedSavesLoseAnUpdate ==
    \A p, q \in Callers :
        (BothSaved(p, q) /\ calls[p].wroteAt < calls[q].wroteAt) =>
            /\ Persisted(q)
            /\ Persisted(p) <=> calls[p].wroteAt < calls[q].loadedAt

\* both calls completed successfully and one snapshot is lost
InterleavedSavesLoseAnUpdate_witness ==
    /\ BothSaved(1, 2)
    /\ calls[2].loadedAt < calls[1].wroteAt /\ calls[1].wroteAt < calls[2].wroteAt
    /\ last.op = "saveReview" /\ last.ok
    /\ Persisted(2) /\ ~Persisted(1)
    /\ Len(fileDoc[calls[1].repository].reviews) = 1


\* C35: after a FileStorage write (saveReview, saveApprovalTransition,
\* cleanup) during which the process was terminated, the persisted document
\* is the document before the call or the document the call would have
\* written, never a truncated or partial one, and the snapshots committed
\* before the call that the call does not remove are still read.
TerminatedWriteIsAtomic ==
    (last.op \in WriteOps /\ last.terminated /\ ~last.tornBefore) =>
        /\ ~fileTorn
        /\ fileDoc = last.before \/ fileDoc = last.intended
        /\ \A r \in Repos :
             \A i \in 1..Len(last.before[r].reviews) :
                 (\E j \in 1..Len(last.intended[r].reviews) :
                      last.intended[r].reviews[j] = last.before[r].reviews[i])
                 => \E j \in 1..Len(loadData(r, ~fileTorn).reviews) :
                      loadData(r, ~fileTorn).reviews[j] = last.before[r].reviews[i]


\* C37: saveReview(A, s) of the File backend leaves the reviews and the
\* transitions of every other repository and the transitions of A as they
\* were; saveApprovalTransition for A leaves the reviews of A and all data
\* of the other repositories as they were.
SaveFrame ==
    [][ (ops' = ops + 1 /\ last'.op \in {"saveReview", "saveApprovalTransition"}) =>
          /\ \A r \in Repos \ {last'.repository} : fileDoc'[r] = fileDoc[r]
          /\ last'.op = "saveReview" =>
               fileDoc'[last'.repository].transitions = fileDoc[last'.repository].transitions
          /\ last'.op = "saveApprovalTransition" =>
               fileDoc'[last'.repository].reviews = fileDoc[last'.repository].reviews
      ]_vars


WithId(ms, reviewId) == { i \in 1..Len(ms) : ms[i].reviewId = reviewId }

\* C39: in the legacy file store, updateReviewEffectiveness(reviewId, e)
\* called with the id recordReviewMetrics has just returned sets the
\* effectiveness of exactly the record of that call to e and leaves its
\* snapshot and every other record unchanged; with an id no record carries
\* it changes nothing.
EffectivenessIsTheOnlyMutation ==
    [][ (ops' = ops + 1 /\ last'.op = "updateReviewEffectiveness") =>
          /\ (last.op = "recordReviewMetrics" /\ last'.reviewId = last.reviewId) =>
               /\ Len(metrics') = Len(metrics) /\ Len(metrics) > 0
               /\ metrics'[Len(metrics)] =
                    [metrics[Len(metrics)] EXCEPT !.effectiveness = <<last'.effectiveness>>]
               /\ metrics[Len(metrics)].reviewId = last.reviewId
               /\ \A i \in 1..(Len(metrics) - 1) : metrics'[i] = metrics[i]
          /\ WithId(metrics, last'.reviewId) = {} => metrics' = metrics
      ]_vars

===========================================================================
